---- MODULE Spec2Model ----
(***************************************************************************)
(* Model of the video processing pipeline coordinator                      *)
(* (class VideoProcessor, src/unnamed/part_010 lines 40-699).              *)
(*                                                                         *)
(* One run of processVideo is a state machine whose positions are the      *)
(* await points of the code: the text-generation call, and the exit of     *)
(* the extractor, analyzer, annotator and encoder processes.  Every        *)
(* action is the code that runs between two await points.  The outcomes    *)
(* of the external collaborators (provider, processes, file system) are    *)
(* inputs drawn from small sets.                                           *)
(***************************************************************************)
EXTENDS Integers, Sequences, FiniteSets, TLC

(***************************************************************************)
(* Bounds of the model.                                                    *)
(***************************************************************************)
\* largest number of stderr 'data' chunks the annotator delivers in a run
MaxChunks == 2

(***************************************************************************)
(* Text.  A string is a sequence of tokens; the token " " is whitespace.   *)
(***************************************************************************)
WS == " "

RECURSIVE TrimLeft(_)
TrimLeft(s) == IF s # <<>> /\ Head(s) = WS THEN TrimLeft(Tail(s)) ELSE s

RECURSIVE TrimRight(_)
TrimRight(s) ==
    IF s # <<>> /\ s[Len(s)] = WS THEN TrimRight(SubSeq(s, 1, Len(s) - 1)) ELSE s

\* String.prototype.trim
Trim(s) == TrimLeft(TrimRight(s))

\* haystack.includes(needle) for token sequences
Contains(hay, needle) ==
    \E i \in 0..(Len(hay) - Len(needle)) :
        SubSeq(hay, i + 1, i + Len(needle)) = needle

\* the first line of a trimmed stdout instead of the last
LastLine_First(lines, empty) == IF lines = <<>> THEN empty ELSE lines[1]

\* the last line of a trimmed stdout: stdout.split("\n").pop(); an empty
\* stdout gives the empty string
LastLine(lines, empty) == IF lines = <<>> THEN empty ELSE lines[Len(lines)]

RECURSIVE toString(_)
\* Number.prototype.toString(): the decimal digits of a natural number
toString(n) ==
    IF n < 10 THEN << n >> ELSE toString(n \div 10) \o << n % 10 >>

(***************************************************************************)
(* Paths are [dir, stem, ext]; the stem is a sequence of name parts.       *)
(***************************************************************************)
Path(dir, stem, ext) == [dir |-> dir, stem |-> stem, ext |-> ext]

NoPath == Path("", <<>>, "")

\* path.join(framesDir, "manifest.json")
ManifestPathOf(framesDir) ==
    Path(framesDir.dir, framesDir.stem \o <<"/manifest">>, "json")

\* the detections file the analyzer writes into the work directory
DetectionsFile == Path("work", <<"detections">>, "json")

\* a path the analyzer may print that names no file
BogusPath == Path("nowhere", <<"log line">>, "")

(***************************************************************************)
(* The request and the configuration a caller may pass.                    *)
(***************************************************************************)
Videos == { Path("uploads", <<"clip">>, "mp4") }

TaskTexts == { <<"detect">>, <<WS, "detect", WS>> }

\* what the text-generation provider may answer (before trimming)
ProviderTexts == { <<WS, "refined", WS>>, <<"detect">> }

\* null, or a caller-supplied output path
OutputPaths == { NoPath, Path("out", <<"custom">>, "avi") }

\* options.batchSize: 0 stands for an absent (falsy) option
BatchOptions == { 0, 1 }

\* options.maxFrames: 0 stands for an absent or null option
MaxFramesOptions == { 0, 3 }

\* options.frameInterval: 0 stands for an absent option
IntervalOptions == { 0 }

Statuses == { "initializing", "refining_prompt", "extracting_frames",
              "analyzing_frames", "annotating_video", "cleaning_up",
              "completed", "failed" }

\* the statuses at which the injected callback throws
CallbackThrowSets == { {}, Statuses }

\* stderr an external process may have written, as lines
StderrTexts == { <<>>, <<"Traceback", "boom">> }

VARIABLES
    req,            \* arguments of processVideo
    cfg,            \* fields of the VideoProcessor set by the constructor
    env,            \* platform and interpreter the process runs on
    cbThrowsOn,     \* behaviour of the injected status callback
    pc,             \* position of the run
    events,         \* status events handed to the callback, in order
    refinedTask,    \* local refinedTask of processVideo
    providerCalls,  \* number of generateContent calls made
    spawned,        \* processes spawned so far, in order, with their arguments
    alive,          \* processes spawned and not yet closed
    stderrBuf,      \* stderr captured from the process being awaited
    chunks,         \* number of stderr chunks the annotator has delivered
    disk,           \* the files and directories that exist
    locals,         \* framesDir, manifest, detectionsPath, annotatedVideoPath
    outcomes,       \* what the provider and each process did, once it settled
    caught,         \* the error the catch clause of processVideo received
    result,         \* the value processVideo returned
    runs,           \* two runs on one host: position and locals of each
    workFiles,      \* the files the two runs share
    sampler,        \* the extractor process at work on a video
    host,           \* the caller of processVideo: the CLI or the upload handler
    poll,           \* the status polling of the client for one upload
    person          \* a detected person whose label the client draws

single == << req, cfg, env, cbThrowsOn, pc, events, refinedTask, providerCalls,
             spawned, alive, stderrBuf, chunks, disk, locals, outcomes, caught,
             result >>

pair == << runs, workFiles >>

client == << poll, person >>

vars == << single, pair, sampler, host, client >>

inputs == << req, cfg, env, cbThrowsOn >>

(***************************************************************************)
(* Construction.                                                           *)
(***************************************************************************)
\* the options object handed to the constructor
OptionSets ==
    [ batchSize : BatchOptions,
      maxFrames : MaxFramesOptions,
      frameInterval : IntervalOptions,
      keepIntermediateFiles : BOOLEAN,
      skipAnnotation : BOOLEAN ]

\* constructor(options): `x || default` replaces a falsy option
Constructor(options) ==
    [ workDir |-> "work",
      frameInterval |-> IF options.frameInterval = 0 THEN 1
                        ELSE options.frameInterval,
      batchSize |-> IF options.batchSize = 0 THEN 4 ELSE options.batchSize,
      maxFrames |-> IF options.maxFrames = 0 THEN 8 ELSE options.maxFrames,
      keepIntermediateFiles |-> options.keepIntermediateFiles,
      skipAnnotation |-> options.skipAnnotation ]

Requests ==
    [ videoPath : Videos,
      taskDescription : TaskTexts,
      outputPath : OutputPaths,
      skipRefinement : BOOLEAN ]

\* a Unix host with the virtual environment, a Windows host without it
Envs == { [ isWindows |-> FALSE, venvExists |-> TRUE ],
          [ isWindows |-> TRUE, venvExists |-> FALSE ] }

\* the interpreter command runPythonScript and annotateVideo choose
PythonCmd(e) ==
    IF e.venvExists
    THEN (IF e.isWindows THEN "venv/Scripts/python.exe" ELSE "venv/bin/python3")
    ELSE (IF e.isWindows THEN "python" ELSE "python3")

FfmpegCmd(e) == IF e.isWindows THEN "ffmpeg.exe" ELSE "ffmpeg"

\* the session id uuidv4().split("-")[0] of the run
SessionId == "s1"

NoResult == [ x \in {} |-> TRUE ]

Collaborators ==
    { "provider", "extractor", "analyzer", "annotator", "encoder", "cleanup" }

\* how a collaborator settled, its exit code, and whether it wrote its artifact
Outcome(kind, code, wrote) == [ kind |-> kind, code |-> code, wrote |-> wrote ]

NoOutcome == Outcome("none", 0, FALSE)

\* no exception
NoExc == [ raised |-> FALSE, origin |-> "none", message |-> <<>> ]

NoLocals ==
    [ framesDir |-> NoPath, manifestPath |-> NoPath, savedCount |-> 0,
      detectionsPath |-> NoPath, framesAnalyzed |-> 0,
      outputPath |-> NoPath, writtenPath |-> NoPath,
      annotatedVideoPath |-> NoPath, tempPath |-> NoPath ]

\* the two calls of processVideo that may be in progress together
RunIds == { "first", "second" }

\* a call of processVideo that has not begun
IdleRun ==
    [ pc |-> "idle", uuid |-> <<>>, videoPath |-> NoPath, outputArg |-> NoPath,
      framesDir |-> NoPath, outputPath |-> NoPath, tempPath |-> NoPath,
      result |-> "none" ]

\* no upload is being polled
IdlePoll ==
    [ timer |-> "none", ticks |-> 0, pending |-> 0, file |-> "absent",
      seen |-> {}, last |-> [ kind |-> "none", status |-> "" ] ]

\* the extractor process before it is started
IdleSampler ==
    [ phase |-> "idle", total |-> 0, interval |-> 0, limit |-> 0, idx |-> 0,
      files |-> {}, savedCount |-> 0 ]

\* nothing has run yet
Fresh ==
    /\ pc = "idle"
    /\ events = <<>>
    /\ refinedTask = <<>>
    /\ providerCalls = 0
    /\ spawned = <<>>
    /\ alive = {}
    /\ stderrBuf = <<>>
    /\ chunks = 0
    /\ disk = { [path |-> v, content |-> "source"] : v \in Videos }
    /\ locals = NoLocals
    /\ outcomes = [ n \in Collaborators |-> NoOutcome ]
    /\ caught = NoExc
    /\ result = NoResult
    /\ runs = [ r \in RunIds |-> IdleRun ]
    /\ workFiles = {}
    /\ sampler = IdleSampler
    /\ poll = IdlePoll

\* a status file that does not exist, a request that was not answered
NoStatusFile ==
    [ keys |-> {}, status |-> "", stage |-> 0, error |-> <<>>,
      detectionsPath |-> NoPath, annotatedVideoPath |-> NoPath ]

\* processVideo called as a module function: no host code runs
NoHost ==
    [ kind |-> "module", phase |-> "start", argc |-> 0, exitCode |-> -1,
      file |-> NoStatusFile, observed |-> NoStatusFile, answers |-> 0 ]

\* no label has been drawn
NoPerson ==
    [ analysisResult |-> <<>>, detectionKey |-> "", drawn |-> FALSE,
      label |-> <<>> ]

Init ==
    /\ host = NoHost
    /\ person = NoPerson
    /\ req \in Requests
    /\ cfg \in { Constructor(o) : o \in OptionSets }
    /\ env \in Envs
    /\ cbThrowsOn \in CallbackThrowSets
    /\ Fresh

(***************************************************************************)
(* The mutable state of a run as one record, so that a stretch of code is  *)
(* a function from the state before it to the state after it.  The field   *)
(* exc holds the exception in flight, if any.                              *)
(***************************************************************************)
cur ==
    [ pc |-> pc, events |-> events, refinedTask |-> refinedTask,
      providerCalls |-> providerCalls, spawned |-> spawned, alive |-> alive,
      stderrBuf |-> stderrBuf, chunks |-> chunks, disk |-> disk,
      locals |-> locals, outcomes |-> outcomes, caught |-> caught,
      result |-> result, exc |-> NoExc, cbThrowsOn |-> cbThrowsOn ]

\* the state after a stretch of code becomes the state of the run
Assign(n) ==
    /\ pc' = n.pc
    /\ events' = n.events
    /\ refinedTask' = n.refinedTask
    /\ providerCalls' = n.providerCalls
    /\ spawned' = n.spawned
    /\ alive' = n.alive
    /\ stderrBuf' = n.stderrBuf
    /\ chunks' = n.chunks
    /\ disk' = n.disk
    /\ locals' = n.locals
    /\ outcomes' = n.outcomes
    /\ caught' = n.caught
    /\ result' = n.result

Commit(next) ==
    \E n \in { next } :
        Assign(n) /\ UNCHANGED << inputs, pair, sampler, host, client >>

Raised(s) == s.exc.raised

\* throw new Error(message), by the code of the stage origin
Raise(s, origin, message) ==
    [s EXCEPT !.exc = [raised |-> TRUE, origin |-> origin, message |-> message]]

\* a catch clause took the exception
Caught(s) == [s EXCEPT !.exc = NoExc]

\* statement sequencing: F runs only if nothing was thrown before it
Then(s, F(_)) == IF Raised(s) THEN s ELSE F(s)

Exists(d, p) == \E f \in d : f.path = p

Remove(d, p) == { f \in d : f.path # p }

WriteFile(d, p, c) == Remove(d, p) \cup { [path |-> p, content |-> c] }

(***************************************************************************)
(* updateStatus                                                            *)
(***************************************************************************)
StatusEvent(status, stage, action, error, stack, progress) ==
    [ status |-> status, stage |-> stage, action |-> action,
      error |-> error, stack |-> stack, progress |-> progress ]

\* the error the callback throws
CallbackError == <<"callback threw">>

\* updateStatus without the try/catch around the callback
CallbackEscapes_NoTryCatch(ev) == TRUE

\* whether an exception of the callback leaves updateStatus: the try/catch
\* around the call logs it and goes on
CallbackEscapes(ev) == FALSE

\* updateStatus calling the callback outside any try
updateStatus_Unguarded(s, ev) ==
    LET s1 == [s EXCEPT !.events = Append(@, ev)]
    IN  IF ev.status \in s.cbThrowsOn
        THEN Raise(s1, "callback", CallbackError)
        ELSE s1

\* updateStatus(status, stage, details), lines 66-85
updateStatus(s, ev) ==
    LET s1 == [s EXCEPT !.events = Append(@, ev)]
    IN  IF ev.status \in s.cbThrowsOn /\ CallbackEscapes(ev)
        THEN Raise(s1, "callback", CallbackError)
        ELSE s1

Stage(s, status, stage, action) ==
    updateStatus(s, StatusEvent(status, stage, action, <<>>, <<>>, <<>>))

\* child_process.spawn
Spawn(s, name, cmd, args) ==
    [s EXCEPT !.spawned = Append(@, [name |-> name, cmd |-> cmd, args |-> args]),
              !.alive = @ \cup {name},
              !.stderrBuf = <<>>,
              !.chunks = 0]

(***************************************************************************)
(* processVideo: the catch clause (lines 679-697)                          *)
(***************************************************************************)
StackOf(message) == <<"Error:">> \o message \o <<"at VideoProcessor">>

\* a failure result that drops the error message
FailedResult_NoError(message) ==
    [ success |-> FALSE, models |-> "models" ]

FailedResult(message) ==
    [ success |-> FALSE, error |-> message, models |-> "models" ]

\* a catch clause that re-throws instead of returning a result
CatchClause_Rethrows(s) ==
    [s EXCEPT !.pc = "threw", !.caught = s.exc]

\* catch (error) { updateStatus('failed', -1, ...); return {success: false} }
\* an exception thrown inside the catch clause leaves processVideo
CatchClause(s) ==
    LET message == s.exc.message
        s1 == updateStatus([Caught(s) EXCEPT !.caught = s.exc],
                  StatusEvent("failed", -1, "Video processing failed",
                              message, StackOf(message), <<>>))
    IN  IF Raised(s1)
        THEN [s1 EXCEPT !.pc = "threw"]
        ELSE [s1 EXCEPT !.pc = "done", !.result = FailedResult(message)]

\* the try statement of processVideo around a stretch of its body
TryBody(s) == IF Raised(s) THEN CatchClause(s) ELSE s

(***************************************************************************)
(* cleanup and the end of the try body (lines 560-565, 630-678)            *)
(***************************************************************************)
\* cleanup(framesDir); rmOk is whether fs.rmSync succeeds
cleanup(s, rmOk) ==
    IF ~cfg.keepIntermediateFiles /\ Exists(s.disk, s.locals.framesDir)
    THEN IF rmOk
         THEN [s EXCEPT !.disk = Remove(Remove(@, s.locals.manifestPath),
                                        s.locals.framesDir),
                        !.outcomes.cleanup = Outcome("removed", 0, FALSE)]
         ELSE Raise([s EXCEPT !.outcomes.cleanup = Outcome("threw", 0, FALSE)],
                    "cleanup", <<"EPERM: operation not permitted, rm">>)
    ELSE [s EXCEPT !.outcomes.cleanup = Outcome("kept", 0, FALSE)]

SuccessResult(s) ==
    [ success |-> TRUE,
      annotatedVideoPath |-> s.locals.annotatedVideoPath,
      detectionsPath |-> s.locals.detectionsPath,
      framesAnalyzed |-> s.locals.framesAnalyzed,
      savedCount |-> s.locals.savedCount,
      originalTask |-> req.taskDescription,
      refinedTask |-> s.refinedTask,
      models |-> "models",
      processingStages |->
        [ refinement |-> IF req.skipRefinement THEN "skipped" ELSE "completed",
          frameExtraction |-> "completed",
          frameAnalysis |-> "completed",
          videoAnnotation |-> IF cfg.skipAnnotation THEN "skipped" ELSE "completed",
          cleanup |-> "completed" ] ]

\* the end of the try body announcing completion before it cleans up
Finish_CompletedBeforeCleanup(s, rmOk) ==
    LET s1 == Stage(s, "cleaning_up", 4, "Cleaning up intermediate files")
        s2 == Then(s1, LAMBDA t :
                  Stage(t, "completed", 5, "Video processing completed successfully"))
        s3 == Then(s2, LAMBDA t : cleanup(t, rmOk))
    IN  Then(s3, LAMBDA t : [t EXCEPT !.pc = "done", !.result = SuccessResult(t)])

\* lines 630-678: the cleaning_up event, cleanup, the result, the completed event
Finish(s, rmOk) ==
    LET s1 == Stage(s, "cleaning_up", 4, "Cleaning up intermediate files")
        s2 == Then(s1, LAMBDA t : cleanup(t, rmOk))
        s3 == Then(s2, LAMBDA t :
                  Stage(t, "completed", 5, "Video processing completed successfully"))
    IN  Then(s3, LAMBDA t : [t EXCEPT !.pc = "done", !.result = SuccessResult(t)])

(***************************************************************************)
(* refineTaskDescription (lines 90-128)                                    *)
(***************************************************************************)
\* a refinement that is started and not awaited
refineBegin_NotAwaited(s) ==
    LET s1 == Stage(s, "refining_prompt", 0, "Refining prompt with Gemini")
    IN  Then(s1, LAMBDA t :
            [ Spawn(t, "extractor", PythonCmd(env), << req.videoPath >>)
              EXCEPT !.providerCalls = @ + 1,
                     !.refinedTask = req.taskDescription,
                     !.pc = "await_extractor" ])

\* up to the await of generateContent
refineBegin(s) ==
    LET s1 == Stage(s, "refining_prompt", 0, "Refining prompt with Gemini")
    IN  Then(s1, LAMBDA t : [t EXCEPT !.providerCalls = @ + 1,
                                      !.pc = "await_provider"])

\* what the provider call does: an answer, a rejection, or a response
\* object without text
ProviderOutcomes ==
    [ kind : {"answer"}, text : ProviderTexts ]
      \cup [ kind : {"throws", "malformed"}, text : { <<>> } ]

\* a refinement whose catch clause lets the provider's error through
refineSettle_NoFallback(s, out) ==
    LET s0 == [s EXCEPT !.outcomes.provider = Outcome(out.kind, 0, FALSE)]
    IN  IF out.kind = "answer"
        THEN LET t1 == Stage(s0, "refining_prompt", 0, "Prompt refinement completed")
             IN  Then(t1, LAMBDA t : [t EXCEPT !.refinedTask = Trim(out.text)])
        ELSE Raise(s0, "refinement", <<"429 quota exceeded">>)

\* from the settling of generateContent to the return: the try block and
\* its catch clause; the returned text is left in refinedTask
refineSettle(s, out) ==
    LET s0 == [s EXCEPT !.outcomes.provider = Outcome(out.kind, 0, FALSE)]
        tried ==
            IF out.kind = "answer"
            THEN LET t1 == Stage(s0, "refining_prompt", 0, "Prompt refinement completed")
                 IN  Then(t1, LAMBDA t : [t EXCEPT !.refinedTask = Trim(out.text)])
            ELSE IF out.kind = "throws"
                 THEN Raise(s0, "refinement", <<"429 quota exceeded">>)
                 ELSE Raise(s0, "refinement",
                            <<"TypeError: cannot read properties of undefined">>)
    IN  IF Raised(tried)
        THEN LET c1 == updateStatus(Caught(tried),
                           StatusEvent("refining_prompt", 0,
                               "Prompt refinement failed, using original",
                               tried.exc.message, <<>>, <<>>))
             IN  Then(c1, LAMBDA t : [t EXCEPT !.refinedTask = req.taskDescription])
        ELSE tried

(***************************************************************************)
(* runPythonScript (lines 133-220)                                         *)
(***************************************************************************)
\* how a spawned process ends: it could not be spawned ('error' with
\* ENOENT or with another code), or it ran and closed with an exit code
ExitKinds == { "enoent", "spawn_error", "close" }

ExitCodes == { 0, 1 }

CodeText(code) == IF code = 0 THEN "0" ELSE "1"

\* a rejection that passes the spawn error on as it came
PythonFailure_NoCommand(script, out, stderr) ==
    IF out.kind \in { "enoent", "spawn_error" }
    THEN << "spawn ENOENT" >>
    ELSE << "Python script failed with code", CodeText(out.code),
            "Command:", PythonCmd(env), "Script:", script >> \o stderr

\* the rejection of runPythonScript; out.kind # "close" or out.code # 0
PythonFailure(script, out, stderr) ==
    IF out.kind = "enoent"
    THEN << "Python not found. Please ensure Python is installed and available in PATH.",
            "Tried command:", PythonCmd(env),
            "On Windows, use 'python'. On Unix/Linux/Mac, use 'python3'.",
            "Original error:", "spawn ENOENT" >>
    ELSE IF out.kind = "spawn_error"
         THEN << "spawn EACCES" >>
         ELSE << "Python script failed with code", CodeText(out.code),
                 "Command:", PythonCmd(env), "Script:", script >> \o stderr

\* the promise of runPythonScript settles: the process is gone, and the
\* promise rejects unless the process closed with code 0
runPythonScriptSettle(s, name, stage, script, out) ==
    LET s1 == [s EXCEPT !.alive = @ \ {name}]
    IN  IF out.kind = "close" /\ out.code = 0
        THEN s1
        ELSE Raise(s1, stage, PythonFailure(script, out, out.stderr))

(***************************************************************************)
(* extractFrames (lines 225-276)                                           *)
(***************************************************************************)
FramesDir == Path("work", <<"frames_", SessionId>>, "")

WorkDir == Path("work", <<>>, "")

\* extractor arguments with the interval and the frame limit exchanged
ExtractorArgs_Swapped(videoPath, framesDir) ==
    << videoPath, framesDir >>
        \o (IF cfg.maxFrames # 0 THEN << toString(cfg.maxFrames) >> ELSE <<>>)
        \o << toString(cfg.frameInterval) >>

\* the arguments of the extractor; maxFrames is passed when it is truthy
ExtractorArgs(videoPath, framesDir) ==
    << videoPath, framesDir, toString(cfg.frameInterval) >>
        \o (IF cfg.maxFrames # 0 THEN << toString(cfg.maxFrames) >> ELSE <<>>)

\* up to the await of the extractor process
extractBegin(s) ==
    LET s1 == Stage(s, "extracting_frames", 1, "Starting frame extraction")
    IN  Then(s1, LAMBDA t :
            [ Spawn(t, "extractor", PythonCmd(env),
                    ExtractorArgs(req.videoPath, FramesDir))
              EXCEPT !.locals.framesDir = FramesDir,
                     !.disk = IF Exists(@, WorkDir) THEN @
                              ELSE WriteFile(@, WorkDir, "dir"),
                     !.pc = "await_extractor" ])

\* what the extractor process did: how it ended, its stderr, whether it
\* created the output directory, whether it wrote the manifest into it and
\* whether the manifest is JSON that JSON.parse accepts
ExtractorOutcomes ==
    { o \in [ kind : ExitKinds, code : ExitCodes, stderr : StderrTexts,
              madeDir : BOOLEAN, wroteManifest : BOOLEAN, validJson : BOOLEAN,
              savedCount : {1} ] :
        /\ o.kind # "close" => (o.code = 1 /\ o.stderr = <<>> /\ ~o.madeDir)
        /\ o.wroteManifest => o.madeDir
        /\ ~o.wroteManifest => o.validJson }

\* the files the extractor process left
ExtractorEffect(d, out) ==
    LET d1 == IF out.madeDir THEN WriteFile(d, FramesDir, "dir") ELSE d
    IN  IF out.wroteManifest
        THEN WriteFile(d1, ManifestPathOf(FramesDir), "manifest")
        ELSE d1

\* an extraction that spawns the extractor again when it failed
extractSettle_Retries(s, out) ==
    LET s0 == [s EXCEPT !.disk = ExtractorEffect(@, out),
                        !.outcomes.extractor = Outcome(out.kind, out.code, out.madeDir)]
        s1 == runPythonScriptSettle(s0, "extractor", "extraction",
                                    "video_extractor.py", out)
        manifestPath == ManifestPathOf(s.locals.framesDir)
    IN  IF Raised(s1) \/ ~Exists(s1.disk, manifestPath) \/ ~out.validJson
        THEN Raise([ Spawn(Caught(s1), "extractor", PythonCmd(env),
                           ExtractorArgs(req.videoPath, FramesDir))
                     EXCEPT !.alive = {} ],
                   "extraction", <<"Frame extraction failed twice">>)
        ELSE Stage([s1 EXCEPT !.locals.manifestPath = manifestPath,
                              !.locals.savedCount = out.savedCount],
                   "extracting_frames", 1, "Frame extraction completed")

\* from the exit of the extractor to the return of extractFrames
extractSettle(s, out) ==
    LET s0 == [s EXCEPT !.disk = ExtractorEffect(@, out),
                        !.outcomes.extractor = Outcome(out.kind, out.code, out.madeDir)]
        s1 == runPythonScriptSettle(s0, "extractor", "extraction",
                                    "video_extractor.py", out)
        manifestPath == ManifestPathOf(s.locals.framesDir)
        checked(t) ==
            IF ~Exists(t.disk, manifestPath)
            THEN LET f == updateStatus(t,
                              StatusEvent("extracting_frames", 1,
                                  "Frame extraction failed",
                                  <<"manifest.json not found">>, <<>>, <<>>))
                 IN  Then(f, LAMBDA u :
                        Raise(u, "extraction",
                              <<"Frame extraction failed: manifest.json not found">>))
            ELSE IF ~out.validJson
                 THEN Raise(t, "extraction", <<"SyntaxError: Unexpected token in JSON">>)
                 ELSE LET m == [t EXCEPT !.locals.manifestPath = manifestPath,
                                         !.locals.savedCount = out.savedCount]
                      IN  Stage(m, "extracting_frames", 1, "Frame extraction completed")
    IN  Then(s1, checked)

(***************************************************************************)
(* analyzeFrames (lines 281-373)                                           *)
(***************************************************************************)
\* the hard ceiling of the batch size (line 295)
BatchCeiling == 2

Min(a, b) == IF a < b THEN a ELSE b

\* a batch size passed on as configured
SafeBatchSize_NoCap(batchSize) == batchSize

\* Math.min(this.batchSize, 2)
SafeBatchSize(batchSize) == Min(batchSize, BatchCeiling)

\* an analysis that starts without announcing it
analyzeBegin_NoStartEvent(s) ==
    [ Spawn(s, "analyzer", PythonCmd(env),
            << s.locals.manifestPath, s.refinedTask,
               toString(SafeBatchSize(cfg.batchSize)) >>)
      EXCEPT !.pc = "await_analyzer" ]

\* up to the await of the analyzer process
analyzeBegin(s) ==
    LET s1 == Stage(s, "analyzing_frames", 2, "Starting frame analysis")
    IN  Then(s1, LAMBDA t :
            [ Spawn(t, "analyzer", PythonCmd(env),
                    << t.locals.manifestPath, t.refinedTask,
                       toString(SafeBatchSize(cfg.batchSize)) >>)
              EXCEPT !.pc = "await_analyzer" ])

\* what the analyzer may print on stdout, as lines
AnalyzerStdouts ==
    { <<>>, <<DetectionsFile>>, <<BogusPath, DetectionsFile>>,
      <<DetectionsFile, BogusPath>> }

AnalyzerOutcomes ==
    { o \in [ kind : ExitKinds, code : ExitCodes, stderr : StderrTexts,
              stdout : AnalyzerStdouts, wroteDetections : BOOLEAN,
              validJson : BOOLEAN, frames : {0, 1, 2} ] :
        /\ o.kind # "close" =>
              (o.code = 1 /\ o.stderr = <<>> /\ o.stdout = <<>> /\ ~o.wroteDetections)
        /\ ~o.wroteDetections => (o.frames = 0 /\ o.validJson)
        /\ ~o.validJson => o.frames = 0 }

AnalyzerEffect(d, out) ==
    IF out.wroteDetections THEN WriteFile(d, DetectionsFile, "detections") ELSE d

\* an analysis that takes any stderr output for a failure
analyzeSettle_StderrFatal(s, out) ==
    LET s0 == [s EXCEPT !.disk = AnalyzerEffect(@, out),
                        !.outcomes.analyzer =
                            Outcome(out.kind, out.code, out.wroteDetections)]
        s1 == runPythonScriptSettle(s0, "analyzer", "analysis",
                                    "frame_analyzer.py", out)
        detectionsPath == LastLine(out.stdout, NoPath)
        checked(t) ==
            IF out.stderr # <<>>
            THEN Raise(t, "analysis", <<"Frame analysis failed:">> \o out.stderr)
            ELSE IF ~Exists(t.disk, detectionsPath)
            THEN LET f == updateStatus(t,
                              StatusEvent("analyzing_frames", 2,
                                  "Frame analysis failed",
                                  <<"detections.json not found">>, <<>>, <<>>))
                 IN  Then(f, LAMBDA u :
                        Raise(u, "analysis",
                              <<"Frame analysis failed: detections.json not found">>))
            ELSE IF ~out.validJson
                 THEN Raise(t, "analysis", <<"SyntaxError: Unexpected token in JSON">>)
                 ELSE LET m == [t EXCEPT !.locals.detectionsPath = detectionsPath,
                                         !.locals.framesAnalyzed = out.frames]
                      IN  Stage(m, "analyzing_frames", 2, "Frame analysis completed")
    IN  Then(s1, checked)

\* from the exit of the analyzer to the return of analyzeFrames
analyzeSettle(s, out) ==
    LET s0 == [s EXCEPT !.disk = AnalyzerEffect(@, out),
                        !.outcomes.analyzer =
                            Outcome(out.kind, out.code, out.wroteDetections)]
        s1 == runPythonScriptSettle(s0, "analyzer", "analysis",
                                    "frame_analyzer.py", out)
        detectionsPath == LastLine(out.stdout, NoPath)
        checked(t) ==
            IF ~Exists(t.disk, detectionsPath)
            THEN LET f == updateStatus(t,
                              StatusEvent("analyzing_frames", 2,
                                  "Frame analysis failed",
                                  <<"detections.json not found">>, <<>>, <<>>))
                 IN  Then(f, LAMBDA u :
                        Raise(u, "analysis",
                              <<"Frame analysis failed: detections.json not found">>))
            ELSE IF ~out.validJson
                 THEN Raise(t, "analysis", <<"SyntaxError: Unexpected token in JSON">>)
                 ELSE LET m == [t EXCEPT !.locals.detectionsPath = detectionsPath,
                                         !.locals.framesAnalyzed = out.frames]
                      IN  Stage(m, "analyzing_frames", 2, "Frame analysis completed")
    IN  Then(s1, checked)

(***************************************************************************)
(* annotateVideo (lines 378-508)                                           *)
(***************************************************************************)
\* a default output path that also depends on where the video lies
DefaultOutputPath_PerDirectory(videoPath) ==
    Path("work", <<videoPath.dir, "_">> \o videoPath.stem \o <<"_annotated">>, "mp4")

\* path.join(workDir, `${videoStem}_annotated.mp4`), lines 388-391
DefaultOutputPath(videoPath) ==
    Path("work", videoPath.stem \o <<"_annotated">>, "mp4")

\* an annotation that hands the manifest to the annotator
annotateBegin_PassesManifest(s) ==
    LET s1 == Stage(s, "annotating_video", 3, "Starting video annotation")
        outputPath == IF req.outputPath = NoPath
                      THEN DefaultOutputPath(req.videoPath)
                      ELSE req.outputPath
    IN  Then(s1, LAMBDA t :
            [ Spawn(t, "annotator", PythonCmd(env),
                    << req.videoPath, t.locals.manifestPath, outputPath >>)
              EXCEPT !.locals.outputPath = outputPath,
                     !.pc = "await_annotator" ])

\* up to the await of the annotator process
annotateBegin(s) ==
    LET s1 == Stage(s, "annotating_video", 3, "Starting video annotation")
        outputPath == IF req.outputPath = NoPath
                      THEN DefaultOutputPath(req.videoPath)
                      ELSE req.outputPath
    IN  Then(s1, LAMBDA t :
            [ Spawn(t, "annotator", PythonCmd(env),
                    << req.videoPath, t.locals.detectionsPath, outputPath >>)
              EXCEPT !.locals.outputPath = outputPath,
                     !.pc = "await_annotator" ])

\* A stderr chunk is the sequence of the pieces that split('\n') gives.  A
\* piece is a whole progress line, another line, the front or the back part
\* of a progress line that a chunk boundary cut, or blank.
ProgressLine(i) == [ kind |-> "progress", frameIdx |-> i ]

OtherLine == [ kind |-> "other", frameIdx |-> 0 ]

CutFront(i) == [ kind |-> "front", frameIdx |-> i ]

CutBack(i) == [ kind |-> "back", frameIdx |-> i ]

BlankLine == [ kind |-> "blank", frameIdx |-> 0 ]

AnnotatorChunks ==
    { << OtherLine, ProgressLine(1) >>, << CutFront(2) >>,
      << CutBack(2), BlankLine >> }

\* the text of a piece
LineText(piece) ==
    CASE piece.kind = "progress" ->
            IF piece.frameIdx = 1 THEN "Progress: 50.0% (1/2 frames)"
                                  ELSE "Progress: 100.0% (2/2 frames)"
      [] piece.kind = "other" -> "Loading detections"
      [] piece.kind = "front" -> "Progress: 10"
      [] piece.kind = "back" -> "0.0% (2/2 frames)"
      [] OTHER -> WS

\* line.match(/Progress:\s*([\d.]+)%\s*\((\d+)\/(\d+)\s*frames\)/): the
\* groups of a match, <<>> when the piece does not match
ProgressMatch(piece) ==
    IF piece.kind = "progress"
    THEN << piece.frameIdx * 50, piece.frameIdx, 2 >>
    ELSE <<>>

\* a handler that reports every line that is not blank
progressLine_EveryLine(s, piece) ==
    IF piece.kind # "blank"
    THEN updateStatus(s,
             StatusEvent("annotating_video", 3, "Annotating video frames",
                         <<>>, <<>>,
                         IF ProgressMatch(piece) # <<>> THEN ProgressMatch(piece)
                                                        ELSE << 0, 0, 2 >>))
    ELSE s

\* the body of lines.forEach in the stderr handler, for one piece
progressLine(s, piece) ==
    IF piece.kind # "blank" /\ ProgressMatch(piece) # <<>>
    THEN updateStatus(s,
             StatusEvent("annotating_video", 3, "Annotating video frames",
                         <<>>, <<>>, ProgressMatch(piece)))
    ELSE s

RECURSIVE forEachLine(_, _)
forEachLine(s, pieces) ==
    IF pieces = <<>> \/ Raised(s)
    THEN s
    ELSE forEachLine(progressLine(s, Head(pieces)), Tail(pieces))

RECURSIVE ChunkText(_)
ChunkText(pieces) ==
    IF pieces = <<>> THEN <<>>
    ELSE << LineText(Head(pieces)) >> \o ChunkText(Tail(pieces))

\* childProcess.stderr.on("data"), lines 422-447
annotatorStderr(s, chunk) ==
    forEachLine([s EXCEPT !.stderrBuf = @ \o ChunkText(chunk),
                          !.chunks = @ + 1],
                chunk)

\* what the annotator may print as the last line of stdout: nothing, the
\* output path it was given, or a line that names no file
AnnotatorOutcomes ==
    { o \in [ kind : ExitKinds, code : ExitCodes,
              stdout : {"empty", "output", "bogus"}, wroteOutput : BOOLEAN ] :
        o.kind # "close" => (o.code = 1 /\ o.stdout = "empty" /\ ~o.wroteOutput) }

\* a rejection that drops the captured stderr
AnnotatorFailure_NoStderr(out, stderr) ==
    IF out.kind = "enoent"
    THEN << "Python not found. Tried:", PythonCmd(env) >>
    ELSE IF out.kind = "spawn_error"
         THEN << "spawn EACCES" >>
         ELSE << "Annotation failed with code", CodeText(out.code) >>

\* the rejection of the promise in annotateVideo, lines 449-463
AnnotatorFailure(out, stderr) ==
    IF out.kind = "enoent"
    THEN << "Python not found. Tried:", PythonCmd(env) >>
    ELSE IF out.kind = "spawn_error"
         THEN << "spawn EACCES" >>
         ELSE << "Annotation failed with code", CodeText(out.code) >> \o stderr

\* inputPath.replace(/\.mp4$/, '_h264_temp.mp4'), line 514
TempPath(inputPath) ==
    IF inputPath.ext = "mp4"
    THEN Path(inputPath.dir, inputPath.stem \o <<"_h264_temp">>, "mp4")
    ELSE inputPath

\* reencodeToH264 up to the await of the encoder process, lines 513-532
reencodeBegin(s) ==
    LET tempPath == TempPath(s.locals.writtenPath)
    IN  [ Spawn(s, "encoder", FfmpegCmd(env), << s.locals.writtenPath, tempPath >>)
          EXCEPT !.locals.tempPath = tempPath,
                 !.pc = "await_encoder" ]

\* an annotation that does not look for the output video
annotateSettle_NoExistsCheck(s, out) ==
    LET s0 == [s EXCEPT !.alive = @ \ {"annotator"},
                        !.outcomes.annotator =
                            Outcome(out.kind, out.code, out.wroteOutput),
                        !.disk = IF out.wroteOutput
                                 THEN WriteFile(@, s.locals.outputPath, "annotated")
                                 ELSE @]
        s1 == IF out.kind = "close" /\ out.code = 0
              THEN s0
              ELSE Raise(s0, "annotation", AnnotatorFailure(out, s0.stderrBuf))
        annotatedVideoPath ==
            CASE out.stdout = "output" -> s.locals.outputPath
              [] out.stdout = "bogus" -> BogusPath
              [] OTHER -> NoPath
    IN  Then(s1, LAMBDA t :
            reencodeBegin([t EXCEPT !.locals.writtenPath = annotatedVideoPath]))

\* from the exit of the annotator to the await of the encoder, lines 449-487
annotateSettle(s, out) ==
    LET s0 == [s EXCEPT !.alive = @ \ {"annotator"},
                        !.outcomes.annotator =
                            Outcome(out.kind, out.code, out.wroteOutput),
                        !.disk = IF out.wroteOutput
                                 THEN WriteFile(@, s.locals.outputPath, "annotated")
                                 ELSE @]
        s1 == IF out.kind = "close" /\ out.code = 0
              THEN s0
              ELSE Raise(s0, "annotation", AnnotatorFailure(out, s0.stderrBuf))
        annotatedVideoPath ==
            CASE out.stdout = "output" -> s.locals.outputPath
              [] out.stdout = "bogus" -> BogusPath
              [] OTHER -> NoPath
        checked(t) ==
            IF ~Exists(t.disk, annotatedVideoPath)
            THEN LET f == updateStatus(t,
                              StatusEvent("annotating_video", 3,
                                  "Video annotation failed",
                                  <<"output video not found">>, <<>>, <<>>))
                 IN  Then(f, LAMBDA u :
                        Raise(u, "annotation",
                              <<"Video annotation failed: output video not found">>))
            ELSE reencodeBegin([t EXCEPT !.locals.writtenPath = annotatedVideoPath])
    IN  Then(s1, checked)

\* what the encoder process and the swap after it do: how the encoder
\* ended, whether it wrote the temp file, and whether fs.unlinkSync and
\* fs.renameSync succeed
EncoderOutcomes ==
    { o \in [ kind : ExitKinds, code : ExitCodes, wroteTemp : BOOLEAN,
              unlinkOk : BOOLEAN, renameOk : BOOLEAN ] :
        o.kind # "close" => (o.code = 1 /\ ~o.wroteTemp) }

\* the promise of reencodeToH264: resolve(tempPath) or reject, lines 539-553
reencodeResolves(d, tempPath, out) ==
    out.kind = "close" /\ out.code = 0 /\ Exists(d, tempPath)

\* the swap: unlink the original, rename the temp file, lines 488-495; an
\* exception of either is caught by the try around the re-encode
swap(s, out) ==
    LET original == s.locals.writtenPath
        tempPath == s.locals.tempPath
    IN  IF ~Exists(s.disk, tempPath) THEN s
        ELSE IF ~out.unlinkOk THEN s
        ELSE IF ~out.renameOk
             THEN [s EXCEPT !.disk = Remove(@, original)]
             ELSE [s EXCEPT !.disk =
                      WriteFile(Remove(Remove(@, original), tempPath),
                                original, "h264")]

\* an annotation that reports its completion under the stage of the cleanup
reencodeSettle_CleanupStage(s, out) ==
    LET s0 == [s EXCEPT !.alive = @ \ {"encoder"},
                        !.outcomes.encoder =
                            Outcome(out.kind, out.code, out.wroteTemp),
                        !.disk = IF out.wroteTemp
                                 THEN WriteFile(@, s.locals.tempPath, "h264")
                                 ELSE @]
        s1 == IF reencodeResolves(s0.disk, s.locals.tempPath, out)
              THEN swap(s0, out)
              ELSE s0
        s2 == Stage(s1, "annotating_video", 4, "Video annotation completed")
    IN  Then(s2, LAMBDA t :
            [t EXCEPT !.locals.annotatedVideoPath = t.locals.writtenPath])

\* from the exit of the encoder to the return of annotateVideo, lines 486-507
reencodeSettle(s, out) ==
    LET s0 == [s EXCEPT !.alive = @ \ {"encoder"},
                        !.outcomes.encoder =
                            Outcome(out.kind, out.code, out.wroteTemp),
                        !.disk = IF out.wroteTemp
                                 THEN WriteFile(@, s.locals.tempPath, "h264")
                                 ELSE @]
        s1 == IF reencodeResolves(s0.disk, s.locals.tempPath, out)
              THEN swap(s0, out)
              ELSE s0
        s2 == Stage(s1, "annotating_video", 3, "Video annotation completed")
    IN  Then(s2, LAMBDA t :
            [t EXCEPT !.locals.annotatedVideoPath = t.locals.writtenPath])

(***************************************************************************)
(* processVideo (lines 570-698): the actions of a run                      *)
(***************************************************************************)
\* a call that refines the prompt whatever skipRefinement says
processVideoBegin_AlwaysRefines(s) ==
    LET s1 == Stage(s, "initializing", 0, "Initializing video processing pipeline")
    IN  IF Raised(s1)
        THEN [s1 EXCEPT !.pc = "threw"]
        ELSE TryBody(refineBegin(s1))

\* the call: the initializing event, outside the try statement, then the
\* try body up to its first await
processVideoBegin(s) ==
    LET s1 == Stage(s, "initializing", 0, "Initializing video processing pipeline")
    IN  IF Raised(s1)
        THEN [s1 EXCEPT !.pc = "threw"]
        ELSE TryBody(IF req.skipRefinement
                     THEN extractBegin([s1 EXCEPT !.refinedTask = req.taskDescription])
                     ELSE refineBegin(s1))

\* a skipped annotation that emits no stage 3 event
afterAnalysis_NoSkipEvent(s, rmOk) ==
    IF ~cfg.skipAnnotation
    THEN annotateBegin(s)
    ELSE Finish(s, rmOk)

\* lines 612-678 after analyzeFrames returned
afterAnalysis(s, rmOk) ==
    IF ~cfg.skipAnnotation
    THEN annotateBegin(s)
    ELSE Then(Stage(s, "annotating_video", 3, "Video annotation skipped"),
              LAMBDA t : Finish(t, rmOk))

ProcessVideo ==
    /\ pc = "idle"
    /\ Commit(processVideoBegin(cur))

ProviderSettles ==
    /\ pc = "await_provider"
    /\ \E out \in ProviderOutcomes :
          Commit(TryBody(Then(refineSettle(cur, out), extractBegin)))

ExtractorStep(s, out) ==
    TryBody(Then(extractSettle(s, out), analyzeBegin))

ExtractorExits ==
    /\ pc = "await_extractor"
    /\ "extractor" \in alive
    /\ \E out \in ExtractorOutcomes :
          Commit(ExtractorStep(cur, out))

\* an analyzer that may report any number of frames
AnalyzerContract_Unbounded(out, savedCount) == TRUE

\* the analyzer reports detections for frames of the manifest it was given,
\* at most one entry for each
AnalyzerContract(out, savedCount) == out.frames <= savedCount

AnalyzerStep(s, out, rmOk) ==
    TryBody(Then(analyzeSettle(s, out), LAMBDA t : afterAnalysis(t, rmOk)))

AnalyzerExits ==
    /\ pc = "await_analyzer"
    /\ "analyzer" \in alive
    /\ \E out \in AnalyzerOutcomes, rmOk \in BOOLEAN :
          /\ AnalyzerContract(out, locals.savedCount)
          /\ Commit(AnalyzerStep(cur, out, rmOk))

\* a stderr chunk of the running annotator; an exception that leaves the
\* handler is uncaught and ends the Node process
AnnotatorStderr ==
    /\ pc = "await_annotator"
    /\ "annotator" \in alive
    /\ chunks < MaxChunks
    /\ \E chunk \in AnnotatorChunks :
          LET n == annotatorStderr(cur, chunk)
          IN  Commit(IF Raised(n) THEN [n EXCEPT !.pc = "threw"] ELSE n)

AnnotatorStep(s, out) == TryBody(annotateSettle(s, out))

\* a process that could not be spawned has written nothing
AnnotatorExits ==
    /\ pc = "await_annotator"
    /\ "annotator" \in alive
    /\ \E out \in AnnotatorOutcomes :
          /\ out.kind # "close" => chunks = 0
          /\ Commit(AnnotatorStep(cur, out))

\* the encoder refuses to write its output over its input
EncoderExits ==
    /\ pc = "await_encoder"
    /\ "encoder" \in alive
    /\ \E out \in EncoderOutcomes, rmOk \in BOOLEAN :
          /\ locals.tempPath = locals.writtenPath => (out.code = 1 /\ ~out.wroteTemp)
          /\ Commit(TryBody(Then(reencodeSettle(cur, out),
                                 LAMBDA t : Finish(t, rmOk))))

Next ==
    \/ ProcessVideo
    \/ ProviderSettles
    \/ ExtractorExits
    \/ AnalyzerExits
    \/ AnnotatorStderr
    \/ AnnotatorExits
    \/ EncoderExits

Spec == Init /\ [][Next]_vars

\* the refinement call settles and every spawned process eventually closes
\* or fails to spawn; the code of the run itself always runs
\* (at every position of a run exactly one of these steps is possible)
Settles ==
    \/ ProcessVideo
    \/ ProviderSettles
    \/ ExtractorExits
    \/ AnalyzerExits
    \/ AnnotatorExits
    \/ EncoderExits

Fairness == WF_vars(Settles)

\* the runs of one host and one task text with the default batch size and
\* frame limit: these inputs only reach the arguments of the processes
InitFair ==
    /\ Init
    /\ req.taskDescription = <<WS, "detect", WS>>
    /\ cfg.batchSize = 4
    /\ cfg.maxFrames = 8
    /\ ~env.isWindows

FairSpec == InitFair /\ [][Next]_vars /\ Fairness

TypeOK ==
    /\ pc \in { "idle", "await_provider", "await_extractor", "await_analyzer",
                "await_annotator", "await_encoder", "done", "threw" }
    /\ providerCalls \in 0..1
    /\ chunks \in 0..MaxChunks
    /\ alive \subseteq { "extractor", "analyzer", "annotator", "encoder" }

(***************************************************************************)
(* Two calls of processVideo on one host, interleaved at their await       *)
(* points.  Of each call only what touches the files under the work        *)
(* directory is kept: the session directory, the annotated video, the      *)
(* temp file of the re-encode, and cleanup.                                *)
(***************************************************************************)
\* values of uuidv4(), as the first group and the rest; the generator does
\* not return the same value twice
Uuids == { <<"a1b2c3d4", "-1111">>, <<"a1b2c3d4", "-2222">>, <<"e5f6a7b8", "-1111">> }

\* uuidv4().split("-")[0], line 235
SessionIdOf(uuid) == uuid[1]

\* path.join(this.workDir, `frames_${sessionId}`), line 236
FramesDirOf(uuid) == Path("work", <<"frames_", SessionIdOf(uuid)>>, "")

\* the videos the two calls may be given
RunVideos ==
    { Path("uploads", <<"clip">>, "mp4"), Path("camera", <<"clip">>, "avi"),
      Path("uploads", <<"walk">>, "mp4") }

\* how a process of one of the two calls ended
RunExits == [ code : ExitCodes, wrote : BOOLEAN ]

ContentAt(d, p) == (CHOOSE f \in d : f.path = p).content

\* processVideo up to the await in extractFrames, lines 570-251
RunStarts(r) ==
    /\ runs[r].pc = "idle"
    /\ \E v \in RunVideos, o \in OutputPaths,
          u \in Uuids \ { runs[q].uuid : q \in RunIds } :
          runs' = [runs EXCEPT ![r] =
                      [@ EXCEPT !.pc = "await_extractor", !.uuid = u,
                                !.videoPath = v, !.outputArg = o,
                                !.framesDir = FramesDirOf(u)]]
    /\ workFiles' = IF Exists(workFiles, WorkDir) THEN workFiles
                    ELSE WriteFile(workFiles, WorkDir, "dir")
    /\ UNCHANGED << single, sampler, host, client >>

\* a call that ends in the catch clause of processVideo
RunFails(r) == [runs EXCEPT ![r].pc = "done", ![r].result = "failed"]

\* the extractor exits; extractFrames looks for manifest.json, lines 252-262
RunExtractorExits(r) ==
    /\ runs[r].pc = "await_extractor"
    /\ \E out \in RunExits :
          LET dir == runs[r].framesDir
              d1 == IF out.wrote
                    THEN WriteFile(WriteFile(workFiles, dir, r), ManifestPathOf(dir), r)
                    ELSE workFiles
          IN  /\ workFiles' = d1
              /\ runs' = IF out.code = 0 /\ Exists(d1, ManifestPathOf(dir))
                         THEN [runs EXCEPT ![r].pc = "await_analyzer"]
                         ELSE RunFails(r)
    /\ UNCHANGED << single, sampler, host, client >>

\* cleanup(framesDir), lines 560-565
RunCleanup(d, r) ==
    IF ~cfg.keepIntermediateFiles /\ Exists(d, runs[r].framesDir)
    THEN Remove(Remove(d, ManifestPathOf(runs[r].framesDir)), runs[r].framesDir)
    ELSE d

\* the analyzer exits (it cannot succeed without the manifest it was given);
\* processVideo goes on to annotateVideo or to cleanup, lines 612-678
RunAnalyzerExits(r) ==
    /\ runs[r].pc = "await_analyzer"
    /\ \E code \in ExitCodes :
          /\ code = 0 => Exists(workFiles, ManifestPathOf(runs[r].framesDir))
          /\ IF code # 0
             THEN runs' = RunFails(r) /\ UNCHANGED workFiles
             ELSE IF cfg.skipAnnotation
                  THEN /\ workFiles' = RunCleanup(workFiles, r)
                       /\ runs' = [runs EXCEPT ![r].pc = "done",
                                               ![r].result = "success"]
                  ELSE /\ runs' = [runs EXCEPT
                                      ![r].pc = "await_annotator",
                                      ![r].outputPath =
                                          IF runs[r].outputArg = NoPath
                                          THEN DefaultOutputPath(runs[r].videoPath)
                                          ELSE runs[r].outputArg]
                       /\ UNCHANGED workFiles
    /\ UNCHANGED << single, sampler, host, client >>

\* the annotator exits, having printed the output path it was given;
\* annotateVideo looks for the file and starts the re-encode, lines 458-487
RunAnnotatorExits(r) ==
    /\ runs[r].pc = "await_annotator"
    /\ \E out \in RunExits :
          LET d1 == IF out.wrote
                    THEN WriteFile(workFiles, runs[r].outputPath, r)
                    ELSE workFiles
          IN  /\ workFiles' = d1
              /\ runs' = IF out.code = 0 /\ Exists(d1, runs[r].outputPath)
                         THEN [runs EXCEPT ![r].pc = "await_encoder",
                                           ![r].tempPath = TempPath(runs[r].outputPath)]
                         ELSE RunFails(r)
    /\ UNCHANGED << single, sampler, host, client >>

\* the encoder exits (it refuses to write its output over its input); the
\* swap, cleanup and the result, lines 486-495 and 630-678
RunEncoderExits(r) ==
    /\ runs[r].pc = "await_encoder"
    /\ \E out \in RunExits :
          LET original == runs[r].outputPath
              tempPath == runs[r].tempPath
              d1 == IF out.wrote THEN WriteFile(workFiles, tempPath, r) ELSE workFiles
              d2 == IF out.code = 0 /\ Exists(d1, tempPath) /\ Exists(d1, original)
                    THEN WriteFile(Remove(Remove(d1, original), tempPath),
                                   original, ContentAt(d1, tempPath))
                    ELSE d1
          IN  /\ tempPath = original => (out.code = 1 /\ ~out.wrote)
              /\ workFiles' = RunCleanup(d2, r)
              /\ runs' = [runs EXCEPT ![r].pc = "done", ![r].result = "success"]
    /\ UNCHANGED << single, sampler, host, client >>

NextTwoRuns ==
    \E r \in RunIds :
        \/ RunStarts(r)
        \/ RunExtractorExits(r)
        \/ RunAnalyzerExits(r)
        \/ RunAnnotatorExits(r)
        \/ RunEncoderExits(r)

\* both calls are made on processors built with the same options
InitTwoRuns ==
    /\ InitFair
    /\ req.taskDescription = <<WS, "detect", WS>>
    /\ req.outputPath = NoPath
    /\ req.skipRefinement
    /\ cbThrowsOn = {}

TwoRuns == InitTwoRuns /\ [][NextTwoRuns]_vars

(***************************************************************************)
(* The extractor process at work: it is started with the arguments that    *)
(* extractFrames builds (lines 243-248), keeps every Nth frame of the      *)
(* video beginning with the first, stops at the frame limit when it is     *)
(* given one, and writes manifest.json with saved_count.                   *)
(***************************************************************************)
\* the options the processor of a sampled video may be built with
SamplingOptions ==
    [ batchSize : { 0 },
      maxFrames : { 0, 1, 2, 3 },
      frameInterval : { 0, 2, 3, 90 },
      keepIntermediateFiles : { FALSE },
      skipAnnotation : { FALSE } ]

\* the number of frames the video may have
FrameCounts == (1..10) \cup { 89, 90, 91 }

RECURSIVE parseInt(_)
\* the number a sequence of decimal digits denotes
parseInt(digits) ==
    IF digits = <<>> THEN 0
    ELSE parseInt(SubSeq(digits, 1, Len(digits) - 1)) * 10 + digits[Len(digits)]

\* the extractor starts on a video of some length with the arguments of
\* extractFrames; a limit of 0 stands for no fourth argument
SamplerStarts ==
    /\ sampler.phase = "idle"
    /\ \E total \in FrameCounts :
          LET args == ExtractorArgs(req.videoPath, FramesDir)
          IN  sampler' = [ IdleSampler EXCEPT
                             !.phase = "reading",
                             !.total = total,
                             !.interval = parseInt(args[3]),
                             !.limit = IF Len(args) > 3 THEN parseInt(args[4]) ELSE 0 ]
    /\ UNCHANGED << single, pair, host, client >>

SamplerGoesOn ==
    /\ sampler.idx < sampler.total
    /\ (sampler.limit = 0 \/ Cardinality(sampler.files) < sampler.limit)

\* the extractor reads the next frame and saves it when its index is a
\* multiple of the interval
SamplerReads ==
    /\ sampler.phase = "reading"
    /\ SamplerGoesOn
    /\ sampler' = [ sampler EXCEPT
                       !.idx = @ + 1,
                       !.files = IF sampler.idx % sampler.interval = 0
                                 THEN @ \cup { sampler.idx } ELSE @ ]
    /\ UNCHANGED << single, pair, host, client >>

\* the extractor writes manifest.json and exits
SamplerWritesManifest ==
    /\ sampler.phase = "reading"
    /\ ~SamplerGoesOn
    /\ sampler' = [ sampler EXCEPT !.phase = "done",
                                   !.savedCount = Cardinality(sampler.files) ]
    /\ UNCHANGED << single, pair, host, client >>

NextSampling == SamplerStarts \/ SamplerReads \/ SamplerWritesManifest

InitSampling ==
    /\ req = [ videoPath |-> Path("uploads", <<"clip">>, "mp4"),
               taskDescription |-> <<"detect">>,
               outputPath |-> NoPath,
               skipRefinement |-> TRUE ]
    /\ cfg \in { Constructor(o) : o \in SamplingOptions }
    /\ env = [ isWindows |-> FALSE, venvExists |-> TRUE ]
    /\ cbThrowsOn = {}
    /\ host = NoHost
    /\ person = NoPerson
    /\ Fresh

Sampling == InitSampling /\ [][NextSampling]_vars

(***************************************************************************)
(* The callers of processVideo: main of the CLI (part_010, lines 703-791)  *)
(* and the background task of POST /upload with the status sidecar file    *)
(* (Backend/routes/video_processor.js, lines 700-860) that GET /status     *)
(* reads.  The code of a caller that follows `await processVideo(...)`     *)
(* runs in the same turn of the event loop as the return of processVideo,  *)
(* so it is part of the step in which the run returns.                     *)
(***************************************************************************)
\* a video path that names no file
MissingVideo == Path("uploads", <<"gone">>, "mp4")

\* the keys of the status object the upload handler creates, lines 754-767
BaseKeys ==
    { "status", "stage", "videoPath", "taskDescription", "isRefinedPrompt",
      "options", "createdAt" }

\* const status = { status: 'queued', stage: 0, ... }
QueuedStatus ==
    [ NoStatusFile EXCEPT !.keys = BaseKeys, !.status = "queued", !.stage = 0 ]

\* the statusInfo the handler itself passes before it calls processVideo
RunningInfo ==
    StatusEvent("running", 0, "Video processing started", <<>>, <<>>, <<>>)

\* updateStatusFile(statusInfo), lines 779-801: the file written is a copy
\* of the status object with the fields of statusInfo; startedAt is added
\* to the copy when the status is 'running'
updateStatusFile(statusInfo) ==
    [ QueuedStatus EXCEPT
        !.keys = @ \cup { "currentStage", "timestamp", "details" }
                   \cup (IF statusInfo.status = "running" /\ "startedAt" \notin @
                         THEN { "startedAt" } ELSE {}),
        !.status = statusInfo.status,
        !.stage = statusInfo.stage ]

RECURSIVE writeAll(_, _)
\* the status file after the callback has been called with each of evs
writeAll(file, evs) ==
    IF evs = <<>> THEN file
    ELSE writeAll(updateStatusFile(Head(evs)), Tail(evs))

\* a final status that reports completion whatever the result says
finalStatus_AlwaysCompleted(res) ==
    [ keys |-> BaseKeys \cup { "completedAt", "detectionsPath",
                               "annotatedVideoPath", "error", "refinedTask",
                               "models", "processingStages" },
      status |-> "completed",
      stage |-> 5,
      error |-> <<>>,
      detectionsPath |-> IF res.success THEN res.detectionsPath ELSE NoPath,
      annotatedVideoPath |-> IF res.success THEN res.annotatedVideoPath ELSE NoPath ]

\* finalStatus, lines 819-832; JSON.stringify leaves out startedAt when
\* status.startedAt is undefined
finalStatus(res) ==
    [ keys |-> BaseKeys \cup { "completedAt", "detectionsPath",
                               "annotatedVideoPath", "error", "refinedTask",
                               "models", "processingStages" }
                        \cup (IF "startedAt" \in QueuedStatus.keys
                              THEN { "startedAt" } ELSE {}),
      status |-> IF res.success THEN "completed" ELSE "failed",
      stage |-> IF res.success THEN 5 ELSE -1,
      error |-> IF res.success THEN <<>> ELSE res.error,
      detectionsPath |-> IF res.success THEN res.detectionsPath ELSE NoPath,
      annotatedVideoPath |-> IF res.success THEN res.annotatedVideoPath ELSE NoPath ]

\* errorStatus of catch (procErr), lines 835-846
errorStatus(message) ==
    [ QueuedStatus EXCEPT
        !.keys = @ \cup { "error", "errorStack", "completedAt" },
        !.status = "failed", !.stage = -1, !.error = message ]

\* a background task whose final write waits for a later turn of the event
\* loop: the file keeps what the callback wrote last
uploadContinues_FinalWriteLater(h, n, evs) ==
    IF n.pc \in { "done", "threw" }
    THEN [h EXCEPT !.phase = "ended", !.file = writeAll(h.file, evs)]
    ELSE [h EXCEPT !.phase = "running", !.file = writeAll(h.file, evs)]

\* the background task of POST /upload from a stretch of processVideo on:
\* the callback has written the file at every event of the stretch (evs),
\* and when processVideo has returned the final status is written
uploadContinues(h, n, evs) ==
    IF n.pc = "done"
    THEN [h EXCEPT !.phase = "ended", !.file = finalStatus(n.result)]
    ELSE IF n.pc = "threw"
         THEN [h EXCEPT !.phase = "ended", !.file = errorStatus(n.caught.message)]
         ELSE [h EXCEPT !.phase = "running", !.file = writeAll(h.file, evs)]

\* an exit that reports success whatever the result says
ExitCodeOf_AlwaysZero(res) == 0

\* process.exit(result.success ? 0 : 1), line 790
ExitCodeOf(res) == IF res.success THEN 0 ELSE 1

\* main from a stretch of processVideo on: process.exit once it has
\* returned, and main().catch for a rejection, lines 782-801
mainContinues(h, n) ==
    IF n.pc = "done"
    THEN [h EXCEPT !.phase = "ended", !.exitCode = ExitCodeOf(n.result)]
    ELSE IF n.pc = "threw"
         THEN [h EXCEPT !.phase = "ended", !.exitCode = 1]
         ELSE [h EXCEPT !.phase = "running"]

\* a stretch of processVideo together with what its caller does after it
Hosted(next) ==
    \E n \in { next } :
        /\ Assign(n)
        /\ host' = IF host.kind = "cli"
                   THEN mainContinues(host, n)
                   ELSE uploadContinues(host, n,
                            SubSeq(n.events, Len(events) + 1, Len(n.events)))
        /\ UNCHANGED << inputs, pair, sampler, client >>

\* main up to the await of processVideo, lines 704-788: too few arguments
\* and a missing video end the process with code 1
Main ==
    /\ host.kind = "cli"
    /\ host.phase = "start"
    /\ IF host.argc < 2 \/ ~Exists(disk, req.videoPath)
       THEN /\ host' = [host EXCEPT !.phase = "ended", !.exitCode = 1]
            /\ UNCHANGED << single, pair, sampler, client >>
       ELSE Hosted(processVideoBegin(cur))

\* POST /upload up to the first await of processVideo, lines 701-811: the
\* queued status is written, then the running status, then the run begins
UploadPosted ==
    /\ host.kind = "server"
    /\ host.phase = "start"
    /\ \E n \in { processVideoBegin(cur) } :
          /\ Assign(n)
          /\ host' = uploadContinues(
                         [host EXCEPT !.file = writeAll(QueuedStatus, << RunningInfo >>)],
                         n, n.events)
          /\ UNCHANGED << inputs, pair, sampler, client >>

HostedProviderSettles ==
    /\ host.phase = "running"
    /\ pc = "await_provider"
    /\ \E out \in ProviderOutcomes :
          Hosted(TryBody(Then(refineSettle(cur, out), extractBegin)))

HostedExtractorExits ==
    /\ host.phase = "running"
    /\ pc = "await_extractor"
    /\ "extractor" \in alive
    /\ \E out \in ExtractorOutcomes :
          Hosted(ExtractorStep(cur, out))

HostedAnalyzerExits ==
    /\ host.phase = "running"
    /\ pc = "await_analyzer"
    /\ "analyzer" \in alive
    /\ \E out \in AnalyzerOutcomes, rmOk \in BOOLEAN :
          /\ AnalyzerContract(out, locals.savedCount)
          /\ Hosted(AnalyzerStep(cur, out, rmOk))

HostedAnnotatorStderr ==
    /\ host.phase = "running"
    /\ pc = "await_annotator"
    /\ "annotator" \in alive
    /\ chunks < MaxChunks
    /\ \E chunk \in AnnotatorChunks :
          LET n == annotatorStderr(cur, chunk)
          IN  Hosted(IF Raised(n) THEN [n EXCEPT !.pc = "threw"] ELSE n)

HostedAnnotatorExits ==
    /\ host.phase = "running"
    /\ pc = "await_annotator"
    /\ "annotator" \in alive
    /\ \E out \in AnnotatorOutcomes :
          /\ out.kind # "close" => chunks = 0
          /\ Hosted(AnnotatorStep(cur, out))

HostedEncoderExits ==
    /\ host.phase = "running"
    /\ pc = "await_encoder"
    /\ "encoder" \in alive
    /\ \E out \in EncoderOutcomes, rmOk \in BOOLEAN :
          /\ locals.tempPath = locals.writtenPath => (out.code = 1 /\ ~out.wroteTemp)
          /\ Hosted(TryBody(Then(reencodeSettle(cur, out),
                                 LAMBDA t : Finish(t, rmOk))))

\* the number of GET /status requests a behaviour answers
MaxAnswers == 2

\* GET /status/:stem, lines 890-903: 404 when the file does not exist,
\* the parsed file otherwise
StatusRequested ==
    /\ host.kind = "server"
    /\ host.answers < MaxAnswers
    /\ host' = [host EXCEPT !.observed = host.file, !.answers = @ + 1]
    /\ UNCHANGED << single, pair, sampler, client >>

NextHosted ==
    \/ Main
    \/ UploadPosted
    \/ HostedProviderSettles
    \/ HostedExtractorExits
    \/ HostedAnalyzerExits
    \/ HostedAnnotatorStderr
    \/ HostedAnnotatorExits
    \/ HostedEncoderExits
    \/ StatusRequested

\* the CLI passes no outputPath or one, never skips the refinement and has
\* no status callback; the upload handler passes no outputPath, and its
\* callback catches its own exceptions
InitHosted ==
    /\ host \in { [NoHost EXCEPT !.kind = "cli", !.argc = a] : a \in { 1, 2 } }
                \cup { [NoHost EXCEPT !.kind = "server"] }
    /\ req \in [ videoPath : Videos \cup { MissingVideo },
                  taskDescription : { <<WS, "detect", WS>> },
                  outputPath : OutputPaths,
                  skipRefinement : BOOLEAN ]
    /\ host.kind = "cli" => ~req.skipRefinement
    /\ host.kind = "server" => (req.outputPath = NoPath /\ req.videoPath \in Videos)
    /\ cfg \in { Constructor(o) : o \in
                    [ batchSize : { 0 }, maxFrames : MaxFramesOptions,
                      frameInterval : IntervalOptions,
                      keepIntermediateFiles : BOOLEAN,
                      skipAnnotation : { FALSE } ] }
    /\ env = [ isWindows |-> FALSE, venvExists |-> TRUE ]
    /\ cbThrowsOn = {}
    /\ person = NoPerson
    /\ Fresh

HostedSpec == InitHosted /\ [][NextHosted]_vars

(***************************************************************************)
(* The status polling of the client (Frontend/src/pages/Results.tsx, lines *)
(* 750-827) against GET /status/:stem (Backend/routes/video_processor.js,  *)
(* lines 890-903).                                                         *)
(***************************************************************************)
\* the number of times the interval timer fires in a behaviour
MaxTicks == 4

\* the statuses the status file of the upload may hold
FileStatuses == { "running", "analyzing_frames", "completed", "failed" }

ReportsEnd(status) == status \in { "completed", "failed" }

\* the response of GET /status/:stem: 404 when the file does not exist, the
\* parsed file, or 500 when reading or parsing it throws
StatusResponse(file, readOk) ==
    IF file = "absent" THEN [ kind |-> "404", status |-> "" ]
    ELSE IF readOk THEN [ kind |-> "ok", status |-> file ]
    ELSE [ kind |-> "500", status |-> "" ]

\* fetch rejected, or resp.json() threw
FetchError == [ kind |-> "error", status |-> "" ]

\* a timer callback that gives up when the status is not found
pollAnswered_StopsOn404(p, resp) ==
    IF resp.kind = "404" \/ (resp.kind = "ok" /\ ReportsEnd(resp.status))
    THEN [p EXCEPT !.timer = "cleared"]
    ELSE p

\* the body of the timer callback from the answer of fetch on, lines
\* 751-824: a 404 returns, another failure is thrown and caught, a
\* terminal status clears the timer
pollAnswered(p, resp) ==
    IF resp.kind = "ok" /\ ReportsEnd(resp.status)
    THEN [p EXCEPT !.timer = "cleared"]
    ELSE p

\* the upload was answered: setInterval(..., 1500), line 750
PollingStarts ==
    /\ poll.timer = "none"
    /\ poll' = [poll EXCEPT !.timer = "set"]
    /\ UNCHANGED << single, pair, sampler, host, person >>

\* the timer fires and the callback sends its request
TimerFires ==
    /\ poll.timer = "set"
    /\ poll.ticks < MaxTicks
    /\ poll' = [poll EXCEPT !.ticks = @ + 1, !.pending = @ + 1]
    /\ UNCHANGED << single, pair, sampler, host, person >>

\* a request is answered and its callback runs to its end
PollAnswered ==
    /\ poll.pending > 0
    /\ \E resp \in { FetchError } \cup
                    { StatusResponse(poll.file, readOk) : readOk \in BOOLEAN } :
          poll' = [ pollAnswered(poll, resp) EXCEPT
                      !.pending = @ - 1,
                      !.seen = @ \cup { resp.kind },
                      !.last = resp ]
    /\ UNCHANGED << single, pair, sampler, host, person >>

\* the upload handler writes the status file; a terminal status stays
ServerWrites ==
    /\ ~ReportsEnd(poll.file)
    /\ \E status \in FileStatuses : poll' = [poll EXCEPT !.file = status]
    /\ UNCHANGED << single, pair, sampler, host, person >>

NextPolling == PollingStarts \/ TimerFires \/ PollAnswered \/ ServerWrites

InitPolling ==
    /\ req = [ videoPath |-> Path("uploads", <<"clip">>, "mp4"),
               taskDescription |-> <<"detect">>,
               outputPath |-> NoPath,
               skipRefinement |-> TRUE ]
    /\ cfg = Constructor([ batchSize |-> 0, maxFrames |-> 0, frameInterval |-> 0,
                           keepIntermediateFiles |-> FALSE,
                           skipAnnotation |-> FALSE ])
    /\ env = [ isWindows |-> FALSE, venvExists |-> TRUE ]
    /\ cbThrowsOn = {}
    /\ host = NoHost
    /\ person = NoPerson
    /\ Fresh

Polling == InitPolling /\ [][NextPolling]_vars

(***************************************************************************)
(* The label of a detected person (Frontend/src/pages/Index.tsx, lines     *)
(* 635-812).  analysis_result is the sequence of its entries in iteration  *)
(* order; a value is null, a string, a number or an object.  Numbers are   *)
(* in hundredths; conf is the confidence field of an object (-1 when it    *)
(* has none) and str the string extractStringValue finds in it ("" when it *)
(* finds none).                                                            *)
(***************************************************************************)
\* the number of entries of an analysis_result
MaxKeys == 2

NullValue == [ type |-> "null", str |-> "", num |-> 0, conf |-> -1 ]

StrValue(s) == [ type |-> "string", str |-> s, num |-> 0, conf |-> -1 ]

NumValue(n) == [ type |-> "number", str |-> "", num |-> n, conf |-> -1 ]

ObjValue(c, s) == [ type |-> "object", str |-> s, num |-> 0, conf |-> c ]

LabelValues ==
    { NullValue, StrValue(""), StrValue("sad"), NumValue(0), NumValue(90),
      NumValue(-20), ObjValue(-1, "happy"), ObjValue(90, "happy"), ObjValue(30, ""),
      ObjValue(50, "calm") }

LabelKeys == { "emotion", "action", "intensity", "Score" }

AnalysisResults ==
    { ar \in UNION { [ 1..n -> [ key : LabelKeys, value : LabelValues ] ] :
                        n \in 0..MaxKeys } :
        \A i, j \in 1..Len(ar) : ar[i].key = ar[j].key => i = j }

\* key.toLowerCase()
toLowerCase(key) == IF key = "Score" THEN "score" ELSE key

\* capitalize(key), lines 810-812
capitalize(key) ==
    CASE key = "emotion" -> "Emotion"
      [] key = "action" -> "Action"
      [] key = "intensity" -> "Intensity"
      [] OTHER -> key

\* the truthiness of a value
Truthy(value) ==
    CASE value.type = "null" -> FALSE
      [] value.type = "string" -> value.str # ""
      [] value.type = "number" -> value.num # 0
      [] OTHER -> TRUE

\* extractStringValue(value, key), lines 635-668; <<>> stands for null
extractStringValue(value) ==
    IF ~Truthy(value) THEN <<>>
    ELSE CASE value.type = "string" -> << value.str >>
           [] value.type = "number" ->
                IF value.num < 0 THEN << "-" >> \o toString(-value.num)
                ELSE toString(value.num)
           [] OTHER -> IF value.str # "" THEN << value.str >> ELSE <<>>

\* getConfidenceScore(value, key), lines 685-712
getConfidenceScore(value) ==
    CASE value.type = "number" -> value.num
      [] value.type = "object" -> IF value.conf # -1 THEN value.conf ELSE 0
      [] value.type = "string" -> IF value.str # "" THEN 50 ELSE 0
      [] OTHER -> 0

\* const skipKeys = ['confidence', 'intensity', 'score']
skipKeys == { "confidence", "intensity", "score" }

NoDetection == [ key |-> "", value |-> NullValue, confidence |-> -100 ]

RECURSIVE mostConfidentFrom(_, _)
\* the loop of findMostConfidentDetection over the entries left
mostConfidentFrom(entries, best) ==
    IF entries = <<>> THEN best
    ELSE LET entry == Head(entries)
             confidence == getConfidenceScore(entry.value)
             extracted == extractStringValue(entry.value)
         IN  IF toLowerCase(entry.key) \in skipKeys
             THEN mostConfidentFrom(Tail(entries), best)
             ELSE IF extracted # <<>> /\ confidence > best.confidence
                  THEN mostConfidentFrom(Tail(entries),
                           [ key |-> entry.key, value |-> entry.value,
                             confidence |-> confidence ])
                  ELSE mostConfidentFrom(Tail(entries), best)

\* a search that returns the best key whatever the sign of its score
findMostConfidentDetection_AnySign(analysisResult) ==
    LET best == mostConfidentFrom(analysisResult, NoDetection)
    IN  IF best.key # "" THEN best ELSE NoDetection

\* findMostConfidentDetection(analysisResult), lines 718-747
findMostConfidentDetection(analysisResult) ==
    LET best == mostConfidentFrom(analysisResult, NoDetection)
    IN  IF best.key # "" /\ best.confidence >= 0 THEN best ELSE NoDetection

\* analysisResult[key]; undefined is as falsy as null
ValueAt(analysisResult, key) ==
    IF \E i \in 1..Len(analysisResult) : analysisResult[i].key = key
    THEN analysisResult[CHOOSE i \in 1..Len(analysisResult) :
                            analysisResult[i].key = key].value
    ELSE NullValue

LabelOf(key, extracted) == [ key |-> capitalize(key), text |-> extracted ]

PersonDetected == [ key |-> "", text |-> << "Person Detected" >> ]

RECURSIVE lastResort(_)
\* the last loop of extractLabel, lines 797-805
lastResort(entries) ==
    IF entries = <<>> THEN PersonDetected
    ELSE LET entry == Head(entries)
         IN  IF entry.key # "confidence" /\ extractStringValue(entry.value) # <<>>
             THEN LabelOf(entry.key, extractStringValue(entry.value))
             ELSE lastResort(Tail(entries))

RECURSIVE commonFields(_, _)
\* the fallback to emotion, action, expression and pose, lines 771-795
commonFields(analysisResult, fields) ==
    IF fields = <<>> THEN lastResort(analysisResult)
    ELSE LET value == ValueAt(analysisResult, Head(fields))
         IN  IF Truthy(value) /\ extractStringValue(value) # <<>>
             THEN LabelOf(Head(fields), extractStringValue(value))
             ELSE commonFields(analysisResult, Tail(fields))

\* extractLabel(analysisResult, detectionKey), lines 753-808; "" stands
\* for no detection key
extractLabel(analysisResult, detectionKey) ==
    LET selected == ValueAt(analysisResult, detectionKey)
        mostConfident == findMostConfidentDetection(analysisResult)
    IN  IF detectionKey # "" /\ Truthy(selected)
           /\ extractStringValue(selected) # <<>>
        THEN LabelOf(detectionKey, extractStringValue(selected))
        ELSE IF mostConfident # NoDetection
                /\ extractStringValue(mostConfident.value) # <<>>
             THEN LabelOf(mostConfident.key,
                          extractStringValue(mostConfident.value))
             ELSE commonFields(analysisResult,
                               << "emotion", "action", "expression", "pose" >>)

\* the label of the person is drawn, line 855
LabelDrawn ==
    /\ ~person.drawn
    /\ person' = [ person EXCEPT
                     !.drawn = TRUE,
                     !.label = extractLabel(person.analysisResult,
                                            person.detectionKey) ]
    /\ UNCHANGED << single, pair, sampler, host, poll >>

InitLabels ==
    /\ req = [ videoPath |-> Path("uploads", <<"clip">>, "mp4"),
               taskDescription |-> <<"detect">>,
               outputPath |-> NoPath,
               skipRefinement |-> TRUE ]
    /\ cfg = Constructor([ batchSize |-> 0, maxFrames |-> 0, frameInterval |-> 0,
                           keepIntermediateFiles |-> FALSE,
                           skipAnnotation |-> FALSE ])
    /\ env = [ isWindows |-> FALSE, venvExists |-> TRUE ]
    /\ cbThrowsOn = {}
    /\ host = NoHost
    /\ person \in { [ NoPerson EXCEPT !.analysisResult = ar,
                                      !.detectionKey = k ] :
                       ar \in AnalysisResults, k \in { "", "emotion" } }
    /\ Fresh

Labels == InitLabels /\ [][LabelDrawn]_vars

(***************************************************************************)
(* Properties                                                              *)
(***************************************************************************)
Returned == pc = "done"

Succeeded == Returned /\ result.success

\* the stage indices handed to the callback, in order
StageSeq == [ i \in 1..Len(events) |-> events[i].stage ]

Count(seq, P(_)) == Cardinality({ i \in 1..Len(seq) : P(seq[i]) })

IsTerminal(ev) == ev.status \in { "completed", "failed" }

IsProgress(ev) == ev.progress # <<>>

Spawns(name) == { i \in 1..Len(spawned) : spawned[i].name = name }

\* C1 as stated: on every successful run the stage indices are exactly
\* 0,0,1,2,3,...,3,4,5, so that only the index 3 repeats beyond the two 0s.
C1_StagesExactSequence ==
    Succeeded =>
        LET q == StageSeq
            n == Len(q)
        IN  /\ n >= 7
            /\ q[1] = 0 /\ q[2] = 0 /\ q[3] = 1 /\ q[4] = 2
            /\ \A i \in 5..(n - 2) : q[i] = 3
            /\ q[n - 1] = 4 /\ q[n] = 5

\* C1 amended: on every successful run the stage indices start at 0, every
\* next index is the same or one higher (none skipped, none lower than an
\* earlier one), and the sequence ends with a single 4 and a single 5; the
\* index 0 comes once with skipRefinement and three times without, 1 and 2
\* twice each, and 3 once when annotation is skipped and at least twice
\* otherwise.
C1_StagesNonDecreasing ==
    Succeeded =>
        LET q == StageSeq
            n == Len(q)
        IN  /\ n >= 2
            /\ q[1] = 0
            /\ \A i \in 1..(n - 1) : q[i + 1] \in { q[i], q[i] + 1 }
            /\ q[n - 1] = 4 /\ q[n] = 5
            /\ Count(q, LAMBDA x : x = 0) = (IF req.skipRefinement THEN 1 ELSE 3)
            /\ Count(q, LAMBDA x : x = 1) = 2
            /\ Count(q, LAMBDA x : x = 2) = 2
            /\ IF cfg.skipAnnotation
               THEN Count(q, LAMBDA x : x = 3) = 1
               ELSE Count(q, LAMBDA x : x = 3) >= 2
            /\ Count(q, LAMBDA x : x = 4) = 1
            /\ Count(q, LAMBDA x : x = 5) = 1

\* a successful run with refinement, annotation and a progress tick
C1_Witness ==
    /\ Succeeded
    /\ ~req.skipRefinement
    /\ \E i \in 1..Len(events) : IsProgress(events[i])

\* C2: processVideo never throws; whatever the collaborators and the
\* callback do, it returns an object with a boolean success field.
C2_NeverThrows ==
    /\ pc # "threw"
    /\ Returned => ("success" \in DOMAIN result /\ result.success \in BOOLEAN)

\* a run returned although the callback threw at every event and a stage failed
C2_Witness ==
    /\ Returned
    /\ cbThrowsOn = Statuses
    /\ ~result.success
    /\ caught.origin = "analysis"

FatalStages == { "extraction", "analysis", "annotation" }

\* C3 as stated: when extraction, analysis or annotation throws, exactly
\* one failed event with stage -1 is emitted and the result has success
\* false, an error field and a stack field.
C3_FailureResultHasStack ==
    (Returned /\ caught.origin \in FatalStages) =>
        /\ Count(events, LAMBDA e : e.status = "failed" /\ e.stage = -1) = 1
        /\ Count(events, LAMBDA e : e.status = "failed") = 1
        /\ result.success = FALSE
        /\ "error" \in DOMAIN result
        /\ "stack" \in DOMAIN result

\* C3 amended: when extraction, analysis or annotation throws, exactly one
\* failed event with stage -1 is emitted, it carries the error message and
\* the stack, and the result has success false and the error message; the
\* result itself has no stack field.
C3_FailureEventAndResult ==
    (Returned /\ caught.origin \in FatalStages) =>
        /\ Count(events, LAMBDA e : e.status = "failed") = 1
        /\ \A i \in 1..Len(events) :
              events[i].status = "failed" =>
                  /\ events[i].stage = -1
                  /\ events[i].error = caught.message
                  /\ events[i].stack = StackOf(caught.message)
        /\ result.success = FALSE
        /\ "error" \in DOMAIN result
        /\ result.error = caught.message
        /\ "stack" \notin DOMAIN result

\* the annotator failed and the run returned
C3_Witness == Returned /\ caught.origin = "annotation"

\* C4: completed and failed are terminal: a returned run has emitted
\* exactly one of them, as its last event, the result is a success exactly
\* when that event is completed, and a run that has not returned has
\* emitted neither, so that nothing follows a terminal event.
C4_TerminalEvents ==
    /\ Returned =>
          /\ Count(events, IsTerminal) = 1
          /\ IsTerminal(events[Len(events)])
          /\ result.success <=> events[Len(events)].status = "completed"
    /\ ~Returned => Count(events, IsTerminal) = 0

\* a run that failed in annotation after progress ticks
C4_Witness ==
    /\ Returned
    /\ caught.origin = "annotation"
    /\ \E i \in 1..Len(events) : IsProgress(events[i])

\* C5: under the fairness of the collaborators every run returns.
C5_Terminates == <>Returned

\* a run returned after every collaborator had settled
C5_Witness ==
    /\ Returned
    /\ \A n \in Collaborators : outcomes[n].kind # "none"

\* C6: with skipRefinement the provider is never called, the analyzer is
\* given taskDescription verbatim, and the result reports it as refinedTask.
C6_SkipRefinementVerbatim ==
    req.skipRefinement =>
        /\ providerCalls = 0
        /\ \A i \in Spawns("analyzer") : spawned[i].args[2] = req.taskDescription
        /\ Succeeded => result.refinedTask = req.taskDescription

\* a successful run that skipped refinement of a text with outer whitespace
C6_Witness ==
    /\ Succeeded
    /\ req.skipRefinement
    /\ Trim(req.taskDescription) # req.taskDescription
    /\ Spawns("analyzer") # {}

ProviderFailed == outcomes.provider.kind \in { "throws", "malformed" }

\* C7: when the provider throws, the refinement returns the original
\* instruction, the catch clause of processVideo is not entered for it, and
\* the extractor is started with refinedTask equal to taskDescription.
C7_RefinementFallback ==
    ProviderFailed =>
        /\ refinedTask = req.taskDescription
        /\ caught.origin # "refinement"
        /\ Spawns("extractor") # {}
        /\ \E i \in 1..(Len(events) - 1) :
              /\ events[i].action = "Prompt refinement failed, using original"
              /\ events[i + 1].status = "extracting_frames"
        /\ \A i \in Spawns("analyzer") : spawned[i].args[2] = req.taskDescription
        /\ Succeeded => result.refinedTask = req.taskDescription

\* the provider threw and the run went on to analyse with the original text
C7_Witness ==
    /\ outcomes.provider.kind = "throws"
    /\ Spawns("analyzer") # {}

AnnotatorExitedNonZero ==
    outcomes.annotator.kind = "close" /\ outcomes.annotator.code # 0

\* C8: when the annotator exits non-zero the result has success false, no
\* annotatedVideoPath, and an error that contains the annotator's stderr.
C8_AnnotatorFailure ==
    (Returned /\ AnnotatorExitedNonZero) =>
        /\ result.success = FALSE
        /\ "annotatedVideoPath" \notin DOMAIN result
        /\ Contains(result.error, stderrBuf)

\* the annotator wrote to stderr and exited non-zero
C8_Witness ==
    /\ Returned
    /\ AnnotatorExitedNonZero
    /\ stderrBuf # <<>>

\* the encoder settled without a re-encoded file to swap in
TranscoderFailed ==
    /\ outcomes.encoder.kind # "none"
    /\ \/ outcomes.encoder.kind # "close"
       \/ outcomes.encoder.code # 0
       \/ ~outcomes.encoder.wrote

\* C9: when the transcoder fails after a successful annotation the run ends
\* with success true and annotatedVideoPath names the annotated file as the
\* annotator left it, which still exists.
C9_TranscodeFailureNonFatal ==
    (Returned /\ TranscoderFailed) =>
        /\ result.success = TRUE
        /\ result.annotatedVideoPath = locals.writtenPath
        /\ [path |-> locals.writtenPath, content |-> "annotated"] \in disk

\* the frames directory was created by the extractor
FramesDirCreated == outcomes.extractor.wrote

\* C10: after a run whose frames directory was created, the directory is
\* gone when keepIntermediateFiles is false and is still there when it is
\* true, whether the run completed or failed.
C10_FramesDirRemoved ==
    (Returned /\ FramesDirCreated) =>
        (Exists(disk, locals.framesDir) <=> cfg.keepIntermediateFiles)


\* fs.rmSync threw while the frames directory was being removed
CleanupThrew == outcomes.cleanup.kind = "threw"

\* C11: a failure of the removal of the frames directory is not fatal: the
\* run still emits completed and returns success true with detectionsPath
\* and annotatedVideoPath set.
C11_CleanupFailureNonFatal ==
    (Returned /\ CleanupThrew) =>
        /\ result.success = TRUE
        /\ events[Len(events)].status = "completed"
        /\ result.detectionsPath = locals.detectionsPath
        /\ result.detectionsPath # NoPath
        /\ ~cfg.skipAnnotation => result.annotatedVideoPath # NoPath


\* the positions of the events with a status and an action
EventsAt(status, action) ==
    { i \in 1..Len(events) :
        events[i].status = status /\ events[i].action = action }

WithStatus(status) == { i \in 1..Len(events) : events[i].status = status }

\* a start event and a later completion event, and they are the first and
\* the last event of the status
StartAndCompletion(status, start, completions) ==
    \E i \in EventsAt(status, start) :
        \E j \in WithStatus(status) :
            /\ events[j].action \in completions
            /\ i < j
            /\ \A k \in WithStatus(status) : i <= k /\ k <= j

StageStatuses ==
    { "refining_prompt", "extracting_frames", "analyzing_frames",
      "annotating_video", "cleaning_up" }

\* C12 as stated: on a successful run every stage, refinement and cleanup
\* included, has a start event and a completion event, whatever
\* skipRefinement and skipAnnotation are.
C12_StartAndCompletionOfEveryStage ==
    Succeeded =>
        \A st \in StageStatuses : Cardinality(WithStatus(st)) >= 2

\* C12 amended: on a successful run extraction and analysis each have a
\* start and a completion event; so has refinement unless it is skipped,
\* when it has no event; so has annotation unless it is skipped, when it
\* has the single skipped event; cleanup has its start event only, and the
\* completed event follows it at once.
C12_StageEvents ==
    Succeeded =>
        /\ StartAndCompletion("extracting_frames", "Starting frame extraction",
                              { "Frame extraction completed" })
        /\ StartAndCompletion("analyzing_frames", "Starting frame analysis",
                              { "Frame analysis completed" })
        /\ IF req.skipRefinement
           THEN WithStatus("refining_prompt") = {}
           ELSE StartAndCompletion("refining_prompt", "Refining prompt with Gemini",
                                   { "Prompt refinement completed",
                                     "Prompt refinement failed, using original" })
        /\ IF cfg.skipAnnotation
           THEN /\ Cardinality(WithStatus("annotating_video")) = 1
                /\ EventsAt("annotating_video", "Video annotation skipped") # {}
           ELSE StartAndCompletion("annotating_video", "Starting video annotation",
                                   { "Video annotation completed" })
        /\ Cardinality(WithStatus("cleaning_up")) = 1
        /\ events[Len(events) - 1].status = "cleaning_up"
        /\ events[Len(events)].status = "completed"

\* a successful run that refined and annotated
C12_Witness ==
    /\ Succeeded
    /\ ~req.skipRefinement
    /\ ~cfg.skipAnnotation
    /\ outcomes.provider.kind = "answer"


Settled(n) == outcomes[n].kind # "none"

\* C13: the stages of a run do not overlap: the provider call has settled
\* before the extractor is spawned, every process has exited before the
\* next one is spawned, the encoder before cleanup, and at most one process
\* of the run is alive at any time.
C13_StagesDoNotOverlap ==
    /\ Cardinality(alive) <= 1
    /\ pc = "await_provider" => spawned = <<>>
    /\ Spawns("extractor") # {} => (req.skipRefinement \/ Settled("provider"))
    /\ Spawns("analyzer") # {} => (Settled("extractor") /\ "extractor" \notin alive)
    /\ Spawns("annotator") # {} => (Settled("analyzer") /\ "analyzer" \notin alive)
    /\ Spawns("encoder") # {} => (Settled("annotator") /\ "annotator" \notin alive)
    /\ (Settled("cleanup") \/ WithStatus("cleaning_up") # {}) =>
          /\ alive = {}
          /\ Spawns("encoder") # {} => Settled("encoder")
          /\ Spawns("annotator") # {} => Spawns("encoder") # {}

\* a run that went through the provider and all four processes to cleanup
C13_Witness ==
    /\ \A n \in Collaborators : Settled(n)
    /\ Len(spawned) = 4


Processes == { "extractor", "analyzer", "annotator", "encoder" }

\* a process settled otherwise than by closing with code 0
ProcessFailed(n) ==
    /\ Settled(n)
    /\ (outcomes[n].kind # "close" \/ outcomes[n].code # 0)

\* C14: nothing is retried: the provider is called at most once and every
\* process is spawned at most once, and after a fatal failure of a stage no
\* process of a later stage is spawned.
C14_NoRetries ==
    /\ providerCalls <= 1
    /\ \A n \in Processes : Cardinality(Spawns(n)) <= 1
    /\ (ProcessFailed("extractor") \/ caught.origin = "extraction") =>
          (Spawns("analyzer") = {} /\ Spawns("annotator") = {} /\ Spawns("encoder") = {})
    /\ (ProcessFailed("analyzer") \/ caught.origin = "analysis") =>
          (Spawns("annotator") = {} /\ Spawns("encoder") = {})
    /\ (ProcessFailed("annotator") \/ caught.origin = "annotation") =>
          Spawns("encoder") = {}
    /\ ProviderFailed => providerCalls = 1

\* the provider threw and the analyzer failed, and the run returned
C14_Witness ==
    /\ Returned
    /\ ProviderFailed
    /\ ProcessFailed("analyzer")


StatusStagePairs(evs) == [ i \in 1..Len(evs) |-> << evs[i].status, evs[i].stage >> ]

\* an analyzer outcome with its stderr replaced
WithStderr(out, text) == [out EXCEPT !.stderr = text]

\* what a run shows of its control flow: where it stands, the events it
\* emitted, the processes it spawned, and the success and paths of its result
FlowOf(t) ==
    [ pc      |-> t.pc,
      events  |-> StatusStagePairs(t.events),
      spawned |-> t.spawned,
      success |-> t.pc = "done" /\ t.result.success,
      paths   |-> IF t.pc = "done" /\ t.result.success
                  THEN << t.result.annotatedVideoPath, t.result.detectionsPath >>
                  ELSE << >> ]

ErrorOf(t) ==
    IF t.pc = "done" /\ ~t.result.success THEN t.result.error ELSE << >>

\* C16 as stated: two runs that differ only in the analyzer's stderr have the
\* same (status, stage) events and the same success, paths and error.
C16_StderrNeverAltersOutcome ==
    pc = "await_analyzer" =>
        \A out \in AnalyzerOutcomes, text \in StderrTexts, rmOk \in BOOLEAN :
            out.kind = "close" =>
                LET a == AnalyzerStep(cur, out, rmOk)
                    b == AnalyzerStep(cur, WithStderr(out, text), rmOk)
                IN  /\ FlowOf(a) = FlowOf(b)
                    /\ ErrorOf(a) = ErrorOf(b)

\* C16 (amended): two runs that differ only in the analyzer's stderr have the
\* same (status, stage) events, spawn the same processes and have the same
\* success and paths; their errors are equal when the analyzer exits 0, and
\* otherwise each is the same message followed by that run's stderr.
C16_StderrNeverAltersControlFlow ==
    pc = "await_analyzer" =>
        \A out \in AnalyzerOutcomes, text \in StderrTexts, rmOk \in BOOLEAN :
            out.kind = "close" =>
                LET a == AnalyzerStep(cur, out, rmOk)
                    b == AnalyzerStep(cur, WithStderr(out, text), rmOk)
                    bare == AnalyzerStep(cur, WithStderr(out, <<>>), rmOk)
                IN  /\ FlowOf(a) = FlowOf(b)
                    /\ out.code = 0 => ErrorOf(a) = ErrorOf(b)
                    /\ out.code # 0 =>
                          /\ ErrorOf(a) = ErrorOf(bare) \o out.stderr
                          /\ ErrorOf(b) = ErrorOf(bare) \o text

\* a run in which the analyzer wrote to stderr and exited 1 has returned
C16_Witness ==
    /\ Returned
    /\ ProcessFailed("analyzer")
    /\ outcomes.analyzer.kind = "close"
    /\ Contains(result.error, <<"Traceback", "boom">>)


\* "Progress: <pct>% (<idx>/<total> frames)" read off a line of text:
\* <<pct, idx, total>>, and <<>> for a line that is not of this form
ExpectedProgress(text) ==
    CASE text = "Progress: 50.0% (1/2 frames)" -> << 50, 1, 2 >>
      [] text = "Progress: 100.0% (2/2 frames)" -> << 100, 2, 2 >>
      [] OTHER -> << >>

ProgressOfLines(lines) ==
    LET hits == SelectSeq(lines, LAMBDA l : ExpectedProgress(l) # << >>)
    IN  [ i \in 1..Len(hits) |-> ExpectedProgress(hits[i]) ]

ProgressOfEvents(evs) ==
    LET hits == SelectSeq(evs, IsProgress)
    IN  [ i \in 1..Len(hits) |-> hits[i].progress ]

NoMatchIn(chunk) ==
    \A i \in 1..Len(chunk) : ExpectedProgress(LineText(chunk[i])) = << >>

AnnotationClosed(ev) ==
    \/ ev.action \in { "Video annotation completed", "Video annotation failed" }
    \/ ev.status \in { "cleaning_up", "completed", "failed" }

\* what holds of the progress events in every state
C17_WhileAnnotating ==
    /\ pc # "threw"
    /\ Spawns("annotator") = {} => ProgressOfEvents(events) = << >>
    /\ "annotator" \in alive =>
          ProgressOfEvents(events) = ProgressOfLines(stderrBuf)
    /\ \A i \in 1..Len(events) :
          IsProgress(events[i]) =>
              /\ events[i].status = "annotating_video"
              /\ events[i].stage = 3
              /\ \E j \in 1..(i - 1) :
                    events[j].action = "Starting video annotation"
              /\ \A k \in 1..(i - 1) : ~AnnotationClosed(events[k])
    /\ (pc = "await_annotator" /\ "annotator" \in alive) =>
          \A chunk \in AnnotatorChunks :
              NoMatchIn(chunk) =>
                  LET n == annotatorStderr(cur, chunk)
                  IN  /\ ~Raised(n)
                      /\ [n EXCEPT !.stderrBuf = stderrBuf, !.chunks = chunks] = cur
                      /\ \A out \in AnnotatorOutcomes :
                            FlowOf(TryBody(annotateSettle(n, out)))
                                = FlowOf(TryBody(annotateSettle(cur, out)))

\* C17: while the annotator runs the progress events are, in order, exactly
\* the matching lines of its stderr, each with status 'annotating_video',
\* stage 3 and the numbers of its line; a chunk of lines that do not match
\* emits nothing, throws nothing and leaves the course of the run as it was;
\* progress events lie after the annotation start event and before its
\* completion or failure, and no step that leaves the annotator not running
\* adds one.
C17_ProgressEvents ==
    /\ [] C17_WhileAnnotating
    /\ [][ "annotator" \notin alive' =>
              ProgressOfEvents(events') = ProgressOfEvents(events) ]_vars

\* the annotator wrote a line that matches and one that does not, then
\* exited, and the run went on to its end
C17_Witness ==
    /\ Returned
    /\ Settled("annotator")
    /\ Count(events, IsProgress) = 1
    /\ \E i \in 1..Len(stderrBuf) : stderrBuf[i] = "Loading detections"
    /\ \E i \in 1..Len(stderrBuf) : stderrBuf[i] = "Progress: 10"


\* the progress lines in the stream the annotator wrote: the lines that came
\* whole, and those that came as a front part at the end of one chunk and the
\* back part at the start of the next
WrittenProgressLines(buf) ==
    Cardinality({ i \in 1..Len(buf) : ExpectedProgress(buf[i]) # << >> })
  + Cardinality({ i \in 1..(Len(buf) - 1) :
                    /\ buf[i] = "Progress: 10"
                    /\ buf[i + 1] = "0.0% (2/2 frames)" })

\* C18: a progress event is delivered for every progress line the annotator
\* writes to stderr, however the stream is split into chunks.
C18_EveryProgressTickDelivered ==
    "annotator" \in alive =>
        Count(events, IsProgress) = WrittenProgressLines(stderrBuf)


AnalysisCompleted ==
    EventsAt("analyzing_frames", "Frame analysis completed") # {}

\* C19: with skipAnnotation set neither the annotator nor the encoder is ever
\* spawned, and a run whose analysis completed returns success true after a
\* last event 'completed', with videoAnnotation 'skipped' and no annotated
\* video path.
C19_SkipAnnotation ==
    cfg.skipAnnotation =>
        /\ Spawns("annotator") = {}
        /\ Spawns("encoder") = {}
        /\ (Returned /\ AnalysisCompleted) =>
              /\ result.success = TRUE
              /\ events[Len(events)].status = "completed"
              /\ result.processingStages.videoAnnotation = "skipped"
              /\ result.annotatedVideoPath = NoPath


\* C20: when the extractor exits 0 and leaves no manifest.json, the run ends
\* 'failed' without success, the analyzer is not spawned, and the error
\* carries what the extractor wrote to stderr.
C20_MissingManifestCarriesStderr ==
    (pc = "await_extractor" /\ "extractor" \in alive) =>
        \A out \in ExtractorOutcomes :
            (out.kind = "close" /\ out.code = 0 /\ ~out.wroteManifest) =>
                LET t == ExtractorStep(cur, out)
                IN  /\ t.pc = "done"
                    /\ t.result.success = FALSE
                    /\ t.events[Len(t.events)].status = "failed"
                    /\ \A i \in 1..Len(t.spawned) : t.spawned[i].name # "analyzer"
                    /\ Contains(t.result.error, out.stderr)
                    /\ Contains(t.events[Len(t.events)].error, out.stderr)


\* the files on disk once the analyzer has exited with an outcome
DiskAfterAnalyzer(out) ==
    IF out.wroteDetections
    THEN { f \in disk : f.path # DetectionsFile }
             \cup { [path |-> DetectionsFile, content |-> "detections"] }
    ELSE disk

\* the final line the analyzer printed, NoPath (the empty string) for none
FinalStdoutLine(out) ==
    IF Len(out.stdout) = 0 THEN NoPath ELSE out.stdout[Len(out.stdout)]

\* C21: the detections path the run uses is the last line of the analyzer's
\* stdout: it is the path handed to the annotator and returned in the result;
\* when the analyzer exits 0 and that line, or an empty stdout, names no
\* existing file, the run ends 'failed' with an analysis failure and the
\* annotator is not spawned.
C21_DetectionsPathIsLastLine ==
    (pc = "await_analyzer" /\ "analyzer" \in alive) =>
        \A out \in AnalyzerOutcomes, rmOk \in BOOLEAN :
            (out.kind = "close" /\ out.code = 0) =>
                LET t == AnalyzerStep(cur, out, rmOk)
                    last == FinalStdoutLine(out)
                    there == \E f \in DiskAfterAnalyzer(out) : f.path = last
                IN  /\ ~there =>
                          /\ t.pc = "done"
                          /\ t.result.success = FALSE
                          /\ t.result.error =
                                <<"Frame analysis failed: detections.json not found">>
                          /\ t.caught.origin = "analysis"
                          /\ t.events[Len(t.events)].status = "failed"
                          /\ \A i \in 1..Len(t.spawned) :
                                t.spawned[i].name # "annotator"
                    /\ (there /\ out.validJson) =>
                          /\ t.locals.detectionsPath = last
                          /\ \A i \in 1..Len(t.spawned) :
                                t.spawned[i].name = "annotator" =>
                                    t.spawned[i].args[2] = last
                          /\ (t.pc = "done" /\ t.result.success) =>
                                t.result.detectionsPath = last

\* the analyzer exited 0 after printing a last line that names no file, though
\* it wrote the detections file, and the run returned a failure
C21_Witness ==
    /\ Returned
    /\ outcomes.analyzer = Outcome("close", 0, TRUE)
    /\ caught.origin = "analysis"
    /\ result.error = <<"Frame analysis failed: detections.json not found">>


\* the path the annotator reported on the last line of its stdout
ReportedVideoPath(out) ==
    CASE out.stdout = "output" -> locals.outputPath
      [] out.stdout = "bogus" -> BogusPath
      [] OTHER -> NoPath

\* the files on disk once the annotator has exited with an outcome
DiskAfterAnnotator(out) ==
    IF out.wroteOutput
    THEN { f \in disk : f.path # locals.outputPath }
             \cup { [path |-> locals.outputPath, content |-> "annotated"] }
    ELSE disk

\* C22: when the annotator exits 0 and the output video is missing, at the
\* output path or at the path the annotator reported, the run ends 'failed':
\* the encoder is not spawned and the result has success false and no
\* annotatedVideoPath.
C22_MissingOutputVideoIsFatal ==
    (pc = "await_annotator" /\ "annotator" \in alive) =>
        \A out \in AnnotatorOutcomes :
            ( /\ out.kind = "close"
              /\ out.code = 0
              /\ \/ ~\E f \in DiskAfterAnnotator(out) : f.path = locals.outputPath
                 \/ ~\E f \in DiskAfterAnnotator(out) : f.path = ReportedVideoPath(out) ) =>
                LET t == AnnotatorStep(cur, out)
                IN  /\ t.pc = "done"
                    /\ t.result.success = FALSE
                    /\ "annotatedVideoPath" \notin DOMAIN t.result
                    /\ t.result.error =
                          <<"Video annotation failed: output video not found">>
                    /\ t.events[Len(t.events)].status = "failed"
                    /\ \A i \in 1..Len(t.spawned) : t.spawned[i].name # "encoder"

\* the annotator exited 0 without writing the output video and the run
\* returned a failure
C22_Witness ==
    /\ Returned
    /\ outcomes.annotator = Outcome("close", 0, FALSE)
    /\ caught.origin = "annotation"
    /\ ~result.success
    /\ Spawns("encoder") = {}


PythonStages == { "extractor", "analyzer", "annotator" }

\* the interpreter commands a machine may have been asked to run
InterpreterCommands ==
    { "venv/Scripts/python.exe", "venv/bin/python3", "python", "python3" }

\* C23: when the interpreter of the extractor, the analyzer or the annotator
\* cannot be spawned (ENOENT), the run ends 'failed' with success false, no
\* later process is spawned, and the error of the result names the command
\* that was tried, which is the command of that spawn.
C23_SpawnFailureNamesCommand ==
    \A n \in PythonStages :
        (Returned /\ outcomes[n].kind = "enoent") =>
            /\ result.success = FALSE
            /\ events[Len(events)].status = "failed"
            /\ events[Len(events)].stage = -1
            /\ spawned[Len(spawned)].name = n
            /\ spawned[Len(spawned)].cmd \in InterpreterCommands
            /\ \E i \in 1..Len(result.error) :
                  result.error[i] = spawned[Len(spawned)].cmd
            /\ Contains(events[Len(events)].error, << spawned[Len(spawned)].cmd >>)

\* the system interpreter of a Windows machine was not found for the analyzer
C23_Witness ==
    /\ Returned
    /\ outcomes.analyzer.kind = "enoent"
    /\ env.isWindows
    /\ Contains(result.error, << "Tried command:", "python" >>)


\* a call is using its frames directory while its analyzer reads the frames
UsesFramesDir(r) == runs[r].pc = "await_analyzer"

\* C24: two calls in progress together own distinct session directories, and
\* the cleanup of one never removes the frames directory the other is still
\* using.
C24_RunsOwnTheirFramesDir ==
    \A r \in RunIds, q \in RunIds :
        r # q =>
            /\ (runs[r].framesDir # NoPath /\ runs[q].framesDir # NoPath) =>
                  runs[r].framesDir # runs[q].framesDir
            /\ UsesFramesDir(r) => Exists(workFiles, runs[r].framesDir)


\* a call that was given no outputPath and has reached annotateVideo
UsesDefaultOutput(r) ==
    runs[r].outputArg = NoPath /\ runs[r].outputPath # NoPath

\* C25: the default annotated path is made of the work directory and the
\* base name of the video only, so two calls without outputPath on videos
\* with the same base name use the same annotated path and the same temp
\* path of the re-encode, and two such calls on videos with different base
\* names use different annotated paths.
C25_DefaultOutputPathShared ==
    \A r \in RunIds, q \in RunIds :
        (r # q /\ UsesDefaultOutput(r) /\ UsesDefaultOutput(q)) =>
            /\ runs[r].outputPath =
                  [ dir |-> cfg.workDir,
                    stem |-> runs[r].videoPath.stem \o <<"_annotated">>,
                    ext |-> "mp4" ]
            /\ runs[r].videoPath.stem = runs[q].videoPath.stem =>
                  /\ runs[r].outputPath = runs[q].outputPath
                  /\ (runs[r].tempPath # NoPath /\ runs[q].tempPath # NoPath) =>
                        runs[r].tempPath = runs[q].tempPath
            /\ runs[r].videoPath.stem # runs[q].videoPath.stem =>
                  runs[r].outputPath # runs[q].outputPath

\* two calls on different videos with the same base name have both written
\* the same annotated file and both await an encoder that writes the same
\* temp file
C25_Witness ==
    /\ runs["first"].videoPath # runs["second"].videoPath
    /\ UsesDefaultOutput("first") /\ UsesDefaultOutput("second")
    /\ runs["first"].pc = "await_encoder"
    /\ runs["second"].pc = "await_encoder"
    /\ runs["first"].outputPath = runs["second"].outputPath
    /\ runs["first"].tempPath = runs["second"].tempPath
    /\ ContentAt(workFiles, runs["first"].outputPath) = "second"


C28_ResultPathsExist ==
    (Returned /\ result.success /\ ~cfg.skipAnnotation) =>
        /\ Exists(disk, result.detectionsPath)
        /\ Exists(disk, result.annotatedVideoPath)
        /\ req.outputPath = NoPath =>
              result.annotatedVideoPath =
                  Path(cfg.workDir, req.videoPath.stem \o <<"_annotated">>, "mp4")


\* the processor was built without a maximum number of frames
NoMaxFramesConfigured ==
    \E o \in OptionSets : o.maxFrames = 0 /\ cfg = Constructor(o)

\* C29: when no maximum number of frames is configured, the extractor is
\* invoked with only (videoPath, outputDir, interval): no frame limit is
\* handed to it.
C29_MaxFramesOptional ==
    NoMaxFramesConfigured =>
        \A i \in Spawns("extractor") : Len(spawned[i].args) = 3


\* the stage index of each status of the state machine
StageTable ==
    { << "initializing", 0 >>, << "refining_prompt", 0 >>,
      << "extracting_frames", 1 >>, << "analyzing_frames", 2 >>,
      << "annotating_video", 3 >>, << "cleaning_up", 4 >>,
      << "completed", 5 >>, << "failed", -1 >> }

\* C30: every status event pairs its status with the fixed stage index of
\* the state machine (initializing 0, refining_prompt 0, extracting_frames 1,
\* analyzing_frames 2, annotating_video 3, cleaning_up 4, completed 5,
\* failed -1); no event carries another status or another pair.
C30_StatusStageTable ==
    \A i \in 1..Len(events) :
        << events[i].status, events[i].stage >> \in StageTable

\* a run has gone through every status of the success path
C30_Witness ==
    /\ Returned
    /\ { events[i].status : i \in 1..Len(events) } = Statuses \ { "failed" }


\* the encoder outcomes possible at the present await of the encoder
EncoderMayExit(out) ==
    locals.tempPath = locals.writtenPath => (out.code = 1 /\ ~out.wroteTemp)

\* C31: the swap is atomic with respect to the annotated path: after a
\* successful re-encode and swap the annotated path holds the re-encoded
\* file and the temp path is gone, and for every outcome of the swap steps
\* the annotated path holds the original or the re-encoded video, never no
\* file.
C31_SwapAtomic ==
    (pc = "await_encoder" /\ "encoder" \in alive) =>
        \A out \in EncoderOutcomes :
            EncoderMayExit(out) =>
                LET t == reencodeSettle(cur, out)
                    annotated == locals.writtenPath
                IN  /\ Exists(t.disk, annotated)
                    /\ ContentAt(t.disk, annotated) \in { "annotated", "h264" }
                    /\ (/\ reencodeResolves(WriteFile(disk, locals.tempPath, "h264"),
                                            locals.tempPath, out)
                        /\ out.wroteTemp /\ out.unlinkOk /\ out.renameOk) =>
                          /\ ContentAt(t.disk, annotated) = "h264"
                          /\ ~Exists(t.disk, locals.tempPath)


\* C32: the encoder writes to a temporary path that differs from its input
\* path, for every annotated video path handed to it, also one whose name
\* does not end in .mp4.
C32_TempPathDiffersFromInput ==
    \A i \in Spawns("encoder") :
        /\ spawned[i].args[2] # spawned[i].args[1]
        /\ spawned[i].args[2].dir = spawned[i].args[1].dir


\* C33: data flows from stage to stage: the task text handed to the analyzer
\* is the value the refinement step left in refinedTask, which the result
\* reports; the manifest handed to the analyzer is the one of the frames
\* directory this run's extractor was given; the detections path handed to
\* the annotator is the one this run's analysis returned, which the result
\* reports.
C33_DataFlowsStageToStage ==
    /\ \A i \in Spawns("analyzer") :
          /\ spawned[i].args[2] = refinedTask
          /\ \E j \in Spawns("extractor") :
                /\ j < i
                /\ spawned[i].args[1] = ManifestPathOf(spawned[j].args[2])
          /\ spawned[i].args[1] = locals.manifestPath
          /\ Succeeded => result.refinedTask = spawned[i].args[2]
    /\ \A i \in Spawns("annotator") :
          /\ spawned[i].args[2] = locals.detectionsPath
          /\ spawned[i].args[1] = req.videoPath
          /\ \E j \in Spawns("analyzer") : j < i
          /\ Succeeded => result.detectionsPath = spawned[i].args[2]

\* the annotator has been started in a run whose prompt was refined
C33_Witness ==
    /\ Spawns("annotator") # {}
    /\ ~req.skipRefinement
    /\ outcomes.provider.kind = "answer"
    /\ refinedTask # req.taskDescription


\* C34: the CLI exits with code 0 if and only if processVideo returned
\* success=true and with code 1 otherwise; with fewer than two arguments or
\* a video path that names no file it exits with code 1 and no pipeline
\* stage is started.
C34_CliExitCode ==
    host.kind = "cli" =>
        /\ Returned => host.phase = "ended"
        /\ host.exitCode = 0 <=> Succeeded
        /\ host.phase = "ended" => host.exitCode \in { 0, 1 }
        /\ (host.phase = "ended" /\ ~Succeeded) => host.exitCode = 1
        /\ (host.phase = "ended" /\ (host.argc < 2 \/ req.videoPath = MissingVideo)) =>
              /\ host.exitCode = 1
              /\ pc = "idle"
              /\ events = <<>>
              /\ spawned = <<>>
              /\ providerCalls = 0

\* the CLI has exited with code 0 after a run
C34_Witness ==
    /\ host.kind = "cli"
    /\ host.phase = "ended"
    /\ host.exitCode = 0
    /\ Spawns("annotator") # {}


TerminalStatus(status) == status \in { "completed", "failed" }

\* the status file after processVideo has returned to the upload handler,
\* and the order of the writes of the callback
C35_AfterReturn ==
    host.kind = "server" =>
        /\ Returned =>
              /\ host.phase = "ended"
              /\ result.success =>
                    (host.file.status = "completed" /\ host.file.stage = 5)
              /\ ~result.success =>
                    /\ host.file.status = "failed"
                    /\ host.file.stage = -1
                    /\ "error" \in host.file.keys
                    /\ host.file.error = result.error
        /\ \A i, j \in 1..Len(events) :
              (i < j /\ TerminalStatus(events[i].status)) =>
                  TerminalStatus(events[j].status)

C36_StartedAtPreserved ==
    (host.kind = "server" /\ host.phase # "start") =>
        "startedAt" \in host.file.keys


AnsweredNow == poll'.pending = poll.pending - 1

\* a cleared timer has seen a terminal status, which the file still holds
C37_ClearedAfterTerminal ==
    poll.timer = "cleared" =>
        /\ "ok" \in poll.seen
        /\ ReportsEnd(poll.file)

\* C37: the polling timer of an upload is cleared when and only when a poll
\* response reports status 'completed' or 'failed'; a 404, another response
\* that is not OK or a fetch error leaves it running, so polling stops only
\* if the status file holds a terminal status.
C37_TimerClearedOnTerminalOnly ==
    /\ [] C37_ClearedAfterTerminal
    /\ [][ /\ (AnsweredNow /\ poll'.last.kind = "ok" /\ ReportsEnd(poll'.last.status)) =>
                poll'.timer = "cleared"
           /\ (poll.timer # "cleared" /\ poll'.timer = "cleared") =>
                (AnsweredNow /\ poll'.last.kind = "ok" /\ ReportsEnd(poll'.last.status))
           /\ (AnsweredNow /\ poll'.last.kind \in { "404", "500", "error" }) =>
                poll'.timer = poll.timer ]_vars

\* the timer was cleared after a 404, a 500 and a fetch error had left it
\* running
C37_Witness ==
    /\ poll.timer = "cleared"
    /\ { "404", "500", "error" } \subseteq poll.seen
    /\ poll.last.kind = "ok"


\* the entries from which a label may be chosen: the key is no metadata key
\* and a string can be extracted from the value
Qualifies(entry) ==
    /\ toLowerCase(entry.key) \notin skipKeys
    /\ extractStringValue(entry.value) # <<>>

\* the first entry of the highest confidence among the qualifying ones
MostConfidentEntry(ar) ==
    ar[CHOOSE i \in 1..Len(ar) :
          /\ Qualifies(ar[i])
          /\ \A j \in 1..Len(ar) :
                Qualifies(ar[j]) =>
                    \/ getConfidenceScore(ar[j].value) < getConfidenceScore(ar[i].value)
                    \/ (getConfidenceScore(ar[j].value) = getConfidenceScore(ar[i].value)
                        /\ i <= j)]

\* C38: with no detection key selected, the label is taken from the
\* qualifying key of the highest confidence, the first of them on a tie;
\* when no key qualifies, findMostConfidentDetection gives null and the
\* label is 'Person Detected'.
C38_MostConfidentLabel ==
    (person.drawn /\ person.detectionKey = "") =>
        LET ar == person.analysisResult
        IN  IF \E i \in 1..Len(ar) : Qualifies(ar[i])
            THEN /\ findMostConfidentDetection(ar).key = MostConfidentEntry(ar).key
                 /\ person.label =
                        LabelOf(MostConfidentEntry(ar).key,
                                extractStringValue(MostConfidentEntry(ar).value))
            ELSE /\ findMostConfidentDetection(ar) = NoDetection
                 /\ person.label = PersonDetected


\* the first of the fields emotion, action, expression and pose, and then
\* of the keys other than 'confidence', from which a string can be extracted
FallbackLabel(ar) ==
    LET common == << "emotion", "action", "expression", "pose" >>
        gives(key) == extractStringValue(ValueAt(ar, key)) # <<>>
        others == { i \in 1..Len(ar) :
                      ar[i].key # "confidence"
                      /\ extractStringValue(ar[i].value) # <<>> }
    IN  IF \E c \in 1..Len(common) : gives(common[c])
        THEN LET c == CHOOSE c \in 1..Len(common) :
                         gives(common[c]) /\ \A d \in 1..(c - 1) : ~gives(common[d])
             IN  LabelOf(common[c], extractStringValue(ValueAt(ar, common[c])))
        ELSE IF others # {}
             THEN LET i == CHOOSE i \in others : \A j \in others : i <= j
                  IN  LabelOf(ar[i].key, extractStringValue(ar[i].value))
             ELSE PersonDetected

\* C38 (amended): with no detection key selected, the label is taken from
\* the qualifying key of the highest confidence, the first of them on a tie,
\* provided that confidence is not negative; otherwise
\* findMostConfidentDetection gives null and the label is that of the first
\* of emotion, action, expression, pose and then of the keys other than
\* 'confidence' from which a string can be extracted, and 'Person Detected'
\* when there is none.
C38_MostConfidentOrFallback ==
    (person.drawn /\ person.detectionKey = "") =>
        LET ar == person.analysisResult
        IN  IF /\ \E i \in 1..Len(ar) : Qualifies(ar[i])
               /\ getConfidenceScore(MostConfidentEntry(ar).value) >= 0
            THEN /\ findMostConfidentDetection(ar).key = MostConfidentEntry(ar).key
                 /\ person.label =
                        LabelOf(MostConfidentEntry(ar).key,
                                extractStringValue(MostConfidentEntry(ar).value))
            ELSE /\ findMostConfidentDetection(ar) = NoDetection
                 /\ person.label = FallbackLabel(ar)

\* no key qualified and the label was taken from a metadata key
C38_Witness ==
    /\ person.drawn
    /\ person.detectionKey = ""
    /\ \A i \in 1..Len(person.analysisResult) : ~Qualifies(person.analysisResult[i])
    /\ person.label = LabelOf("intensity", << "sad" >>)


\* the state of a run whose callback never throws
Quiet(s) == [s EXCEPT !.cbThrowsOn = {}]

\* the stretch of the run after the provider settles, after a chunk of the
\* annotator's stderr, and after the encoder exits
ProviderStep(s, out) == TryBody(Then(refineSettle(s, out), extractBegin))

StderrStep(s, chunk) ==
    LET n == annotatorStderr(s, chunk)
    IN  IF Raised(n) THEN [n EXCEPT !.pc = "threw"] ELSE n

EncoderStep(s, out, rmOk) ==
    TryBody(Then(reencodeSettle(s, out), LAMBDA t : Finish(t, rmOk)))

\* C39: an exception thrown by the status callback never affects the run:
\* from every state of a run, each stretch of code leads to the same
\* position, events, processes, files and result as it does when the
\* callback does not throw, so that the stages executed, the later events
\* and the returned result are those of a run with a quiet callback.
C39_CallbackThrowsChangeNothing ==
    cbThrowsOn # {} =>
        /\ pc = "idle" =>
              Quiet(processVideoBegin(cur)) = processVideoBegin(Quiet(cur))
        /\ pc = "await_provider" =>
              \A out \in ProviderOutcomes :
                  Quiet(ProviderStep(cur, out)) = ProviderStep(Quiet(cur), out)
        /\ pc = "await_extractor" =>
              \A out \in ExtractorOutcomes :
                  Quiet(ExtractorStep(cur, out)) = ExtractorStep(Quiet(cur), out)
        /\ pc = "await_analyzer" =>
              \A out \in AnalyzerOutcomes, rmOk \in BOOLEAN :
                  Quiet(AnalyzerStep(cur, out, rmOk)) = AnalyzerStep(Quiet(cur), out, rmOk)
        /\ pc = "await_annotator" =>
              /\ \A chunk \in AnnotatorChunks :
                    Quiet(StderrStep(cur, chunk)) = StderrStep(Quiet(cur), chunk)
              /\ \A out \in AnnotatorOutcomes :
                    Quiet(AnnotatorStep(cur, out)) = AnnotatorStep(Quiet(cur), out)
        /\ pc = "await_encoder" =>
              \A out \in EncoderOutcomes, rmOk \in BOOLEAN :
                  EncoderMayExit(out) =>
                      Quiet(EncoderStep(cur, out, rmOk)) = EncoderStep(Quiet(cur), out, rmOk)

\* a run whose callback threw at every event, progress events included, has
\* returned success
C39_Witness ==
    /\ cbThrowsOn = Statuses
    /\ Succeeded
    /\ ~cfg.skipAnnotation
    /\ \E i \in 1..Len(events) : events[i].progress # <<>>

====
